---- MODULE Spec2Model ----
(***************************************************************************)
(* Landing Judge: the durable vote store (DataStore, src/app.py), the      *)
(* broadcast hub (SSEHub), the audio cache (generate_audio_url) and the    *)
(* vote handler that ties them together (src/main.py, src/app.py).         *)
(*                                                                         *)
(* Fourteen specifications share the variables:                            *)
(*   SpecStore  the DataStore driven directly by concurrent callers, with  *)
(*              the file system, write faults, crashes and outside edits   *)
(*              of the log file;                                           *)
(*   Spec       the vote pipeline: /vote requests, a /stream connection    *)
(*              and the hub, the audio cache and the (constructed) store;  *)
(*   SpecScore  the vote handler over every kind of score, over HTTP and   *)
(*              called directly;                                           *)
(*   SpecHub    the hub with two /stream connections, concurrent votes and *)
(*              direct unregister calls;                                   *)
(*   SpecAudio  the audio cache under concurrent votes, the provider       *)
(*              answering each synthesis call in any of its ways;          *)
(*   SpecIndex  generate_audio_url and _increment_audio_play step by step  *)
(*              on two threads, with failing reads and writes of the index *)
(*              file;                                                      *)
(*   SpecStats  compute_stats over growing lists of landings;              *)
(*   SpecReset  /reset requests beside store calls and /stream connections;*)
(*   SpecApp    the locks of the process under every kind of request;      *)
(*   SpecLevel  the vote handler over every score of the scale;            *)
(*   SpecQuote  votes while quotes.json changes;                           *)
(*   SpecKeep   the stream loop with its keep-alives, under weak fairness  *)
(*              of the delivery;                                           *)
(*   SpecTts    votes while ENABLE_TTS is switched off and on;             *)
(*   SpecRegion the audio index while the settings are saved.              *)
(***************************************************************************)
EXTENDS Integers, Sequences, FiniteSets, TLC

VARIABLES
    \* ---- DataStore and its file system (src/app.py) ----
    fs,         \* [Paths -> FileContent]: what is on disk at the log path and the temp path
    lock,       \* DataStore.lock: the thread holding it, or NoThread
    up,         \* the module-level `store = DataStore(DATA_FILE)` has been constructed
    spc,        \* [StoreThreads -> position inside the current DataStore call]
    sop,        \* [StoreThreads -> the DataStore call being executed]
    sarg,       \* [StoreThreads -> the record passed to append]
    sdata,      \* [StoreThreads -> the document the call is writing]
    spre,       \* [StoreThreads -> the log path's content and the edit count when the call began]
    lastRet,    \* how the latest DataStore call ended (call, outcome, returned value), until the next call starts
    diskOK,     \* the environment: whether writes to the store's directory succeed
    \* ---- observers of the store's history ----
    okAppends,  \* the records of the append calls that returned, in return order
    resets,     \* number of reset calls that returned
    edits,      \* number of outside edits of the log file
    crashes,    \* number of process crashes
    ops,        \* number of DataStore calls started
    badStart,   \* the first construction found the log file absent, unparsable or ill-structured
    \* ---- SSEHub and the /stream connections (src/main.py) ----
    clients,    \* SSEHub.clients: the registered queues, in registration order
    queues,     \* [Conns -> the events waiting in the connection's Queue]
    conn,       \* [Conns -> "new", "registered", "streaming", "closed"]
    sent,       \* [Conns -> the messages written to the connection so far]
    hubRet,     \* how the latest direct call of hub.unregister ended, until the registry changes again
    \* ---- /vote requests (src/main.py) ----
    vpc,        \* [Workers -> position inside the vote handler]
    vreq,       \* [Workers -> the request and the handler's local variables]
    vhist,      \* [Workers -> the stages the request has gone through]
    lastResp,   \* the latest HTTP response to a /vote request, with the request it answers
    votes,      \* number of /vote requests received
    ttsEnabled, \* ENABLE_TTS in .env
    quotesFile, \* quotes.json: what a read of the file finds
    region,     \* AWS_REGION, the module global the control panel's Save assigns
    \* ---- the audio cache (src/main.py) ----
    audioIndex, \* audio_index.json: key -> entry
    audioFiles, \* the artifact files under static/audio
    indexTorn,  \* audio_index.json was opened for writing and not written yet: it does not parse
    apc,        \* [Workers -> position inside a direct generate_audio_url / _increment_audio_play call]
    aloc,       \* [Workers -> the local variables of that call]
    aret,       \* how the latest of these calls ended
    \* ---- observers of the audio cache's history ----
    savedKeys,  \* the keys whose entry a generate_audio_url call wrote to audio_index.json
    plays,      \* [IndexKeys -> number of _increment_audio_play calls that wrote their increment]
    peak,       \* [IndexKeys -> the highest play_count written to audio_index.json so far]
    overlap,    \* two of these calls were in progress at the same time
    acalls,     \* number of these calls started
    deletions,  \* number of artifact files deleted from outside
    \* ---- GET /stats and POST /reset (src/app.py) ----
    statsLog,   \* the landings list handed to compute_stats
    statsRet,   \* what compute_stats returned for it, or NoStats
    hubLock,    \* SSEHub.lock: the thread holding it, or NoThread
    rpc,        \* [Workers -> position inside the /reset handler]
    rreq,       \* [Workers -> the broadcast's local variables: snapshot, queues to go, queues served]
    posts       \* number of POST /reset requests received

storeVars == <<fs, lock, up, spc, sop, sarg, sdata, spre, lastRet, diskOK,
               okAppends, resets, edits, crashes, ops, badStart>>

hubVars == <<clients, queues, conn, sent, hubRet>>
envVars == <<ttsEnabled, quotesFile, region>>
voteVars == <<vpc, vreq, vhist, lastResp, votes, envVars>>
indexVars == <<indexTorn, apc, aloc, aret, savedKeys, plays, peak, overlap, acalls, deletions>>
audioVars == <<audioIndex, audioFiles, indexVars>>
httpVars == <<hubVars, voteVars, audioVars>>
appVars == <<statsLog, statsRet, hubLock, rpc, rreq, posts>>

vars == <<storeVars, httpVars, appVars>>

----------------------------------------------------------------------------
(* Bounds of the model *)

\* DataStore calls started, and crashes plus outside edits of the log file
MaxOps == 2
MaxEnvEvents == 1
\* /vote requests received
MaxVotes == 2
\* direct calls of generate_audio_url and _increment_audio_play
MaxAudioCalls == 3
\* the landings a /stats request finds in the log
MaxStatsLen == 12
\* POST /reset requests
MaxPosts == 2
\* requests and store calls handled by the server of src/app.py in all
MaxRequests == 3
\* keep-alives sent to one connection
MaxKeepAlives == 2

----------------------------------------------------------------------------
(* Threads *)

NoThread == "none"
Main == "main"
Workers == {"w1", "w2"}
StoreThreads == Workers \cup {Main}
\* /stream connections, each with the Queue that hub.register() made for it
Conns == {"c1", "c2"}

----------------------------------------------------------------------------
(* JSON documents and file contents *)

\* A parsed JSON value, as far as the store distinguishes them:
\*   "obj"     an object whose "landings" is a list (the landings field holds it)
\*   "nokey"   an object without a "landings" key, e.g. {}
\*   "badland" an object whose "landings" is not a list, e.g. {"landings": 5}
\*   "arr"     a value that is not an object, e.g. []
Doc(k, l) == [k |-> k, landings |-> l]
EmptyLog == Doc("obj", <<>>)

VoteRecord(score, ts) == [score |-> score, ts |-> ts]

\* What a path holds: nothing, text that is no JSON, the first bytes of a
\* document being written, or the whole text of a document.
Absent == [st |-> "absent", doc |-> EmptyLog]
Junk == [st |-> "junk", doc |-> EmptyLog]
Partial(d) == [st |-> "partial", doc |-> d]
Full(d) == [st |-> "full", doc |-> d]

TargetPath == "target"
TmpPathSame == TargetPath
TmpPath == "tmp"
Paths == {"target", "tmp"}

\* self.path.open("r") + json.load: raises unless the path holds a whole document
ReadRaises(c) == c.st # "full"
ReadDoc(c) == c.doc

\* isinstance(data, dict) and "landings" in data and isinstance(data["landings"], list)
ValidStructureLax(d) == d.k # "arr"
ValidStructure(d) == d.k = "obj"

\* try: data = self._read() / except Exception: data = {"landings": []}
ReadOrDefault(c) == IF ReadRaises(c) THEN EmptyLog ELSE ReadDoc(c)

\* data.setdefault("landings", []).append(...) raises AttributeError when data is
\* not a dict (no setdefault) or when data["landings"] is not a list (no append)
AppendRaises(d) == d.k \in {"arr", "badland"}
AppendedInFront(d, rec) == Doc("obj", <<rec>> \o (IF d.k = "obj" THEN d.landings ELSE <<>>))
Appended(d, rec) == Doc("obj", Append(IF d.k = "obj" THEN d.landings ELSE <<>>, rec))

\* data.get("landings", []) raises AttributeError when data is not a dict;
\* a non-list "landings" is returned as []
GetRaises(d) == d.k = "arr"
Landings(d) == IF d.k = "obj" THEN d.landings ELSE <<>>

\* `with self.lock:` is entered only when no thread holds the lock
LockFreeAlways == TRUE
LockFree == lock = NoThread

\* leaving `with self.lock:` by an exception releases the lock
LockAfterRaiseKept(t) == t
LockAfterRaise(t) == NoThread

\* a call's local variables, outside a call
NoPre == [c |-> Absent, e |-> 0]
NoArg == VoteRecord(0, 0)
NoRet == [op |-> "none", outcome |-> "none", value |-> <<>>]
Ret(op, outcome, value) == [op |-> op, outcome |-> outcome, value |-> value]

WritePcs == {"w_open", "w_sync", "w_rename"}

----------------------------------------------------------------------------
(* JSON text: json.dump and json.load *)

\* The text of a document is a sequence of tokens; a number is written as its
\* decimal digits, most significant first.
RECURSIVE IntToDigits(_)
IntToDigits(n) == IF n < 10 THEN <<n>> ELSE Append(IntToDigits(n \div 10), n % 10)
RECURSIVE DigitsToInt(_)
DigitsToInt(ds) ==
    IF Len(ds) = 1 THEN ds[1]
    ELSE 10 * DigitsToInt(SubSeq(ds, 1, Len(ds) - 1)) + ds[Len(ds)]

Tok(t) == [t |-> t, v |-> <<>>]
KeyTok(name) == [t |-> "key", v |-> <<name>>]
NumTok(n) == [t |-> "num", v |-> IntToDigits(n)]
StrTok(n) == [t |-> "str", v |-> IntToDigits(n)]

\* {"score": 7, "ts": "..."}: a dict is written in insertion order
DumpRecord(r) == <<Tok("{"), KeyTok("score"), NumTok(r.score), KeyTok("ts"), StrTok(r.ts), Tok("}")>>

\* a list is written item by item, first to last
RECURSIVE DumpItemsReversed(_)
DumpItemsReversed(l) ==
    IF l = <<>> THEN <<>> ELSE DumpItemsReversed(Tail(l)) \o DumpRecord(Head(l))
RECURSIVE DumpItems(_)
DumpItems(l) == IF l = <<>> THEN <<>> ELSE DumpRecord(Head(l)) \o DumpItems(Tail(l))

\* json.dump(data, f, ensure_ascii=False)
json_dump(d) ==
    IF d.k = "arr" THEN <<Tok("["), Tok("]")>>
    ELSE IF d.k = "nokey" THEN <<Tok("{"), Tok("}")>>
    ELSE IF d.k = "badland" THEN <<Tok("{"), KeyTok("landings"), NumTok(5), Tok("}")>>
    ELSE <<Tok("{"), KeyTok("landings"), Tok("[")>> \o DumpItems(d.landings) \o <<Tok("]"), Tok("}")>>

\* the members of an object starting at token i, up to its closing brace
RECURSIVE LoadMembers(_, _, _)
LoadMembers(text, i, r) ==
    IF text[i].t = "}" THEN r
    ELSE LoadMembers(text, i + 2,
                     IF text[i].v = <<"score">>
                     THEN [r EXCEPT !.score = DigitsToInt(text[i + 1].v)]
                     ELSE [r EXCEPT !.ts = DigitsToInt(text[i + 1].v)])

\* the items of a list starting at token i, up to its closing bracket; every
\* record takes six tokens
RECURSIVE LoadItems(_, _)
LoadItems(text, i) ==
    IF text[i].t = "]" THEN <<>>
    ELSE <<LoadMembers(text, i + 1, [score |-> 0, ts |-> 0])>> \o LoadItems(text, i + 6)

\* json.load(f)
json_load(text) ==
    IF text[1].t = "[" THEN Doc("arr", <<>>)
    ELSE IF text[2].t = "}" THEN Doc("nokey", <<>>)
    ELSE IF text[3].t = "num" THEN Doc("badland", <<>>)
    ELSE Doc("obj", LoadItems(text, 4))

\* what the temp file holds after json.dump, flush and fsync: the whole text of
\* d, held as the document a reader parses it to
Written(d) == Full(json_load(json_dump(d)))

----------------------------------------------------------------------------
(* Events, requests and responses of the HTTP layer *)

\* the audio locator "" (no audio) and "/static/audio/<filename>"
EmptyLocator == <<>>
Engines == {"neural", "standard"}
\* f"quote_{safe_voice}_{engine}_{text_hash}.{POLLY_OUTPUT_FORMAT}": the voice
\* and the format are fixed for the process, so the engine and the text name the file
AudioFilename(engine, text) == <<engine, text>>
AudioUrl(filename) == <<"/static/audio/">> \o filename

\* the lines the direct calls of the audio cache are made for, and their keys:
\* md5 of f"{text}|voice={vid}|engine={engine}|fmt=...|region=..."
IndexTexts == {"Well, that happened.", "Absolute butter."}
\* AWS_REGION: os.environ.get('AWS_REGION', 'us-east-1'), and the regions the
\* control panel offers
DefaultRegion == "us-east-1"
Regions == {"us-east-1", "eu-west-1"}
IndexKeys == {<<x, e, r>> : x \in IndexTexts, e \in Engines, r \in Regions}

\* no call in progress: op, text, the engine, key and file name in use, the
\* index as loaded (pre) and as the call will write it (idx), the faults met;
\* due: the text whose play the thread's vote handler has still to record
NoCall == [op |-> "none", text |-> "", engine |-> "none", key |-> <<>>, filename |-> <<>>,
           pre |-> <<>>, idx |-> <<>>, faults |-> {}, due |-> ""]
NoAudioRet == [op |-> "none", text |-> "", outcome |-> "none", value |-> <<>>, faults |-> {}]

IndexInit ==
    /\ indexTorn = FALSE
    /\ apc = [t \in Workers |-> "idle"]
    /\ aloc = [t \in Workers |-> NoCall]
    /\ aret = NoAudioRet
    /\ savedKeys = {}
    /\ plays = [k \in IndexKeys |-> 0]
    /\ peak = [k \in IndexKeys |-> 0]
    /\ overlap = FALSE
    /\ acalls = 0
    /\ deletions = 0

HelloMissing == [type |-> "none"]
Hello == [type |-> "hello"]
NoEvent == [type |-> "none"]

\* quotes.json as a read finds it.  shape: the file is absent, is no JSON, is a
\* JSON array, is an object without "quotes", an object whose "quotes" is an
\* array, or an object whose "quotes" is an object; given, list, lines: the
\* scores that object has a value for, whether the value is a list, and the list
QuoteEntry(given, list, lines) == [given |-> given, list |-> list, lines |-> lines]
NotGiven == QuoteEntry(FALSE, FALSE, <<>>)
QuotesDoc(shape, seven, ten) ==
    [shape |-> shape, entries |-> [c \in 1..10 |-> IF c = 7 THEN seven ELSE IF c = 10 THEN ten ELSE NotGiven]]

\* the user's file gives score 7 an empty list
UserQuotes == QuotesDoc("object", QuoteEntry(TRUE, TRUE, <<>>), NotGiven)

NoReq == [raw |-> 0, http |-> FALSE, clamped |-> 0, quote |-> "", audio |-> "none", calls |-> <<>>,
          audio_url |-> EmptyLocator, payload |-> NoEvent, targets |-> <<>>, todo |-> <<>>]
\* a response: the status, the body, and for the properties the request it
\* answers (raw score, route or direct call, the stages gone through)
NoResp == [status |-> 0, body |-> NoEvent, raw |-> 0, http |-> FALSE, hist |-> <<>>]

\* the outcome of a direct hub call: the call, its queue, and how it ended
NoHubRet == [op |-> "none", arg |-> "none", outcome |-> "none"]

HttpInit ==
    /\ clients = <<>>
    /\ hubRet = NoHubRet
    /\ queues = [c \in Conns |-> <<>>]
    /\ conn = [c \in Conns |-> "new"]
    /\ sent = [c \in Conns |-> <<>>]
    /\ vpc = [t \in Workers |-> "idle"]
    /\ vreq = [t \in Workers |-> NoReq]
    /\ vhist = [t \in Workers |-> <<>>]
    /\ lastResp = NoResp
    /\ votes = 0
    /\ ttsEnabled = TRUE
    /\ quotesFile = UserQuotes
    /\ region = DefaultRegion
    /\ audioIndex = <<>>
    /\ audioFiles = {}
    /\ IndexInit

\* no statistics computed yet
NoStats == [count |-> -1, best |-> -1, recent |-> <<>>, top |-> <<>>, indexed |-> <<>>]
\* no broadcast in progress: the snapshot, the queues still to put on, the queues put on
NoBroadcast == [targets |-> <<>>, todo |-> <<>>, served |-> <<>>]

AppInit ==
    /\ statsLog = <<>>
    /\ statsRet = NoStats
    /\ hubLock = NoThread
    /\ rpc = [t \in Workers |-> "idle"]
    /\ rreq = [t \in Workers |-> NoBroadcast]
    /\ posts = 0

----------------------------------------------------------------------------
(* DataStore: construction *)

StoreInitContents ==
    {Absent, Junk, Full(Doc("arr", <<>>)), Full(Doc("nokey", <<>>)),
     Full(Doc("badland", <<>>)), Full(EmptyLog), Full(Doc("obj", <<VoteRecord(5, 0)>>))}

StoreInit ==
    /\ fs \in {[p \in Paths |-> IF p = TargetPath THEN c ELSE Absent] : c \in StoreInitContents}
    /\ badStart = (fs[TargetPath].st # "full" \/ fs[TargetPath].doc.k # "obj")
    /\ lock = NoThread
    /\ up = FALSE
    /\ spc = [t \in StoreThreads |-> "idle"]
    /\ sop = [t \in StoreThreads |-> "none"]
    /\ sarg = [t \in StoreThreads |-> NoArg]
    /\ sdata = [t \in StoreThreads |-> EmptyLog]
    /\ spre = [t \in StoreThreads |-> NoPre]
    /\ lastRet = NoRet
    /\ diskOK = TRUE
    /\ okAppends = <<>>
    /\ resets = 0
    /\ edits = 0
    /\ crashes = 0
    /\ ops = 0
    /\ HttpInit
    /\ AppInit

\* DataStore.__init__ -> _ensure_file: an absent, unreadable or structurally
\* invalid file is rewritten as the empty log; a valid one is left alone.
\* No lock is taken: the store is built at import, before any request thread.
EnsureFile ==
    /\ ~up
    /\ spc[Main] = "idle"
    /\ LET c == fs[TargetPath] IN
        IF c.st = "absent" \/ ReadRaises(c) \/ ~ValidStructure(ReadDoc(c))
        THEN /\ spc' = [spc EXCEPT ![Main] = "w_open"]
             /\ sop' = [sop EXCEPT ![Main] = "ensure"]
             /\ sdata' = [sdata EXCEPT ![Main] = EmptyLog]
             /\ spre' = [spre EXCEPT ![Main] = [c |-> c, e |-> edits]]
             /\ UNCHANGED <<up, lastRet>>
        ELSE /\ up' = TRUE
             /\ lastRet' = Ret("ensure", "ok", <<>>)
             /\ UNCHANGED <<spc, sop, sdata, spre>>
    /\ UNCHANGED <<fs, lock, sarg, diskOK, okAppends, resets, edits, crashes, ops, badStart>>
    /\ UNCHANGED <<httpVars, appVars>>

----------------------------------------------------------------------------
(* DataStore: the calls *)

\* A request thread calls append(score, ts), reset() or get_landings(); it
\* then waits at `with self.lock:`.  The call counter stands for the caller's
\* clock reading ts.
StoreCall(t, op, score) ==
    /\ up
    /\ spc[t] = "idle"
    /\ ops < MaxOps
    /\ ops' = ops + 1
    /\ spc' = [spc EXCEPT ![t] = "wait"]
    /\ sop' = [sop EXCEPT ![t] = op]
    /\ sarg' = [sarg EXCEPT ![t] = VoteRecord(score, ops + 1)]
    /\ lastRet' = NoRet
    /\ UNCHANGED <<fs, lock, up, sdata, spre, diskOK, okAppends, resets, edits, crashes, badStart>>
    /\ UNCHANGED <<httpVars, appVars>>

\* DataStore.append(score, ts): under the lock, read the file (or default to
\* the empty log), add the record, then _atomic_write the document.
StoreAppend(t) ==
    /\ spc[t] = "wait"
    /\ sop[t] = "append"
    /\ LockFree
    /\ LET d == ReadOrDefault(fs[TargetPath]) IN
        IF AppendRaises(d)
        THEN /\ lastRet' = Ret("append", "AttributeError", <<>>)
             /\ lock' = LockAfterRaise(t)
             /\ spc' = [spc EXCEPT ![t] = "idle"]
             /\ sop' = [sop EXCEPT ![t] = "none"]
             /\ sarg' = [sarg EXCEPT ![t] = NoArg]
             /\ UNCHANGED <<sdata, spre>>
        ELSE /\ lock' = t
             /\ spc' = [spc EXCEPT ![t] = "w_open"]
             /\ sdata' = [sdata EXCEPT ![t] = Appended(d, sarg[t])]
             /\ spre' = [spre EXCEPT ![t] = [c |-> fs[TargetPath], e |-> edits]]
             /\ UNCHANGED <<lastRet, sop, sarg>>
    /\ UNCHANGED <<fs, up, diskOK, okAppends, resets, edits, crashes, ops, badStart>>
    /\ UNCHANGED <<httpVars, appVars>>

\* DataStore.reset(): under the lock, _atomic_write the empty log.
StoreReset(t) ==
    /\ spc[t] = "wait"
    /\ sop[t] = "reset"
    /\ LockFree
    /\ lock' = t
    /\ spc' = [spc EXCEPT ![t] = "w_open"]
    /\ sdata' = [sdata EXCEPT ![t] = EmptyLog]
    /\ spre' = [spre EXCEPT ![t] = [c |-> fs[TargetPath], e |-> edits]]
    /\ UNCHANGED <<fs, up, sop, sarg, lastRet, diskOK, okAppends, resets, edits, crashes, ops, badStart>>
    /\ UNCHANGED <<httpVars, appVars>>

\* DataStore.get_landings(): under the lock, read the file (or default to the
\* empty log) and return its landings list; the lock is released on return
\* and on the AttributeError of a non-dict document alike.
StoreGetLandings(t) ==
    /\ spc[t] = "wait"
    /\ sop[t] = "get_landings"
    /\ LockFree
    /\ LET d == ReadOrDefault(fs[TargetPath]) IN
        lastRet' = IF GetRaises(d)
                   THEN Ret("get_landings", "AttributeError", <<>>)
                   ELSE Ret("get_landings", "ok", Landings(d))
    /\ spc' = [spc EXCEPT ![t] = "idle"]
    /\ sop' = [sop EXCEPT ![t] = "none"]
    /\ sarg' = [sarg EXCEPT ![t] = NoArg]
    /\ UNCHANGED <<fs, lock, up, sdata, spre, diskOK,
                   okAppends, resets, edits, crashes, ops, badStart>>
    /\ UNCHANGED <<httpVars, appVars>>

----------------------------------------------------------------------------
(* DataStore._atomic_write, step by step *)

\* An OSError inside _atomic_write leaves it at once.  In append and reset it
\* passes through `with self.lock:` to the caller; in _ensure_file it ends the
\* construction (the module-level store is never bound).
WriteRaise(t) ==
    /\ lastRet' = Ret(sop[t], "OSError", <<>>)
    /\ spc' = [spc EXCEPT ![t] = IF t = Main THEN "failed" ELSE "idle"]
    /\ lock' = IF t = Main THEN lock ELSE LockAfterRaise(t)
    /\ sop' = [sop EXCEPT ![t] = "none"]
    /\ sarg' = [sarg EXCEPT ![t] = NoArg]
    /\ sdata' = [sdata EXCEPT ![t] = EmptyLog]
    /\ spre' = [spre EXCEPT ![t] = NoPre]

\* tmp.open("w"): creates or truncates the temp file
WOpen(t) ==
    /\ spc[t] = "w_open"
    /\ IF diskOK
       THEN /\ fs' = [fs EXCEPT ![TmpPath] = Partial(sdata[t])]
            /\ spc' = [spc EXCEPT ![t] = "w_sync"]
            /\ UNCHANGED <<lock, lastRet, sop, sarg, sdata, spre>>
       ELSE /\ WriteRaise(t)
            /\ UNCHANGED fs
    /\ UNCHANGED <<up, diskOK, okAppends, resets, edits, crashes, ops, badStart>>
    /\ UNCHANGED <<httpVars, appVars>>

\* json.dump; f.flush(); os.fsync(); close: the temp file holds the whole document
WSync(t) ==
    /\ spc[t] = "w_sync"
    /\ IF diskOK
       THEN /\ fs' = [fs EXCEPT ![TmpPath] = Written(sdata[t])]
            /\ spc' = [spc EXCEPT ![t] = "w_rename"]
            /\ UNCHANGED <<lock, lastRet, sop, sarg, sdata, spre>>
       ELSE /\ WriteRaise(t)
            /\ UNCHANGED fs
    /\ UNCHANGED <<up, diskOK, okAppends, resets, edits, crashes, ops, badStart>>
    /\ UNCHANGED <<httpVars, appVars>>

\* os.replace(tmp, self.path): the log path takes the temp file's content in
\* one step and the temp path is gone; a missing temp file raises
WRename(t) ==
    /\ spc[t] = "w_rename"
    /\ IF diskOK /\ fs[TmpPath].st # "absent"
       THEN /\ fs' = IF TmpPath = TargetPath
                     THEN fs
                     ELSE [fs EXCEPT ![TargetPath] = fs[TmpPath], ![TmpPath] = Absent]
            /\ spc' = [spc EXCEPT ![t] = "w_done"]
            /\ resets' = IF sop[t] = "reset" THEN resets + 1 ELSE resets
            /\ UNCHANGED <<lock, lastRet, sop, sarg, sdata, spre>>
       ELSE /\ WriteRaise(t)
            /\ UNCHANGED <<fs, resets>>
    /\ UNCHANGED <<up, diskOK, okAppends, edits, crashes, ops, badStart>>
    /\ UNCHANGED <<httpVars, appVars>>

\* _atomic_write returns; `with self.lock:` releases the lock and the call
\* returns None (append, reset), or the constructor returns (_ensure_file)
WReturn(t) ==
    /\ spc[t] = "w_done"
    /\ spc' = [spc EXCEPT ![t] = "idle"]
    /\ lastRet' = Ret(sop[t], "ok", <<>>)
    /\ lock' = IF t = Main THEN lock ELSE NoThread
    /\ up' = IF t = Main THEN TRUE ELSE up
    /\ okAppends' = IF sop[t] = "append"
                    THEN Append(okAppends, sdata[t].landings[Len(sdata[t].landings)])
                    ELSE okAppends
    /\ sop' = [sop EXCEPT ![t] = "none"]
    /\ sarg' = [sarg EXCEPT ![t] = NoArg]
    /\ sdata' = [sdata EXCEPT ![t] = EmptyLog]
    /\ spre' = [spre EXCEPT ![t] = NoPre]
    /\ UNCHANGED <<fs, diskOK, resets, edits, crashes, ops, badStart>>
    /\ UNCHANGED <<httpVars, appVars>>

----------------------------------------------------------------------------
(* The environment of the store *)

\* The process dies at any point and is started again: threads, the lock and
\* the store object are gone, the files stay as they are.
Crash ==
    /\ crashes + edits < MaxEnvEvents
    /\ crashes' = crashes + 1
    /\ lock' = NoThread
    /\ up' = FALSE
    /\ spc' = [t \in StoreThreads |-> "idle"]
    /\ sop' = [t \in StoreThreads |-> "none"]
    /\ sarg' = [t \in StoreThreads |-> NoArg]
    /\ sdata' = [t \in StoreThreads |-> EmptyLog]
    /\ spre' = [t \in StoreThreads |-> NoPre]
    /\ lastRet' = NoRet
    /\ UNCHANGED <<fs, diskOK, okAppends, resets, edits, ops, badStart>>
    /\ UNCHANGED <<httpVars, appVars>>

\* Somebody else deletes or overwrites the log file while the server runs.
EditContents ==
    {Absent, Junk, Full(Doc("arr", <<>>)), Full(Doc("nokey", <<>>)), Full(Doc("badland", <<>>))}

ExternalEdit(c) ==
    /\ crashes + edits < MaxEnvEvents
    /\ edits' = edits + 1
    /\ fs' = [fs EXCEPT ![TargetPath] = c]
    /\ UNCHANGED <<lock, up, spc, sop, sarg, sdata, spre, lastRet, diskOK,
                   okAppends, resets, crashes, ops, badStart>>
    /\ UNCHANGED <<httpVars, appVars>>

\* Writes start to fail (disk full, permissions) ...
DiskFault ==
    /\ diskOK
    /\ diskOK' = FALSE
    /\ UNCHANGED <<fs, lock, up, spc, sop, sarg, sdata, spre, lastRet,
                   okAppends, resets, edits, crashes, ops, badStart>>

\* ... and work again.
DiskRepair ==
    /\ ~diskOK
    /\ diskOK' = TRUE
    /\ UNCHANGED <<fs, lock, up, spc, sop, sarg, sdata, spre, lastRet,
                   okAppends, resets, edits, crashes, ops, badStart>>

AppendScores == {7}

StoreNext ==
    \/ EnsureFile
    \/ \E t \in Workers, s \in AppendScores : StoreCall(t, "append", s)
    \/ \E t \in Workers : StoreCall(t, "reset", 0)
    \/ \E t \in Workers : StoreCall(t, "get_landings", 0)
    \/ \E t \in Workers : StoreAppend(t)
    \/ \E t \in Workers : StoreReset(t)
    \/ \E t \in Workers : StoreGetLandings(t)
    \/ \E t \in StoreThreads : WOpen(t)
    \/ \E t \in StoreThreads : WSync(t)
    \/ \E t \in StoreThreads : WRename(t)
    \/ \E t \in StoreThreads : WReturn(t)
    \/ Crash
    \/ \E c \in EditContents : ExternalEdit(c)
    \/ DiskFault /\ UNCHANGED <<httpVars, appVars>>
    \/ DiskRepair /\ UNCHANGED <<httpVars, appVars>>

SpecStore == StoreInit /\ [][StoreNext]_vars

----------------------------------------------------------------------------
(* Properties of the store (checked under SpecStore) *)

\* the log a reader finds at the log path: the landings of a whole,
\* well-structured document, nothing otherwise
TargetLog ==
    IF fs[TargetPath].st = "full" /\ fs[TargetPath].doc.k = "obj"
    THEN fs[TargetPath].doc.landings
    ELSE <<>>

InSeq(r, s) == \E i \in 1..Len(s) : s[i] = r

\* workers whose append has renamed the temp file over the log and not yet returned
Renamed == {t \in Workers : spc[t] = "w_done" /\ sop[t] = "append"}

\* C6: with concurrent append and get_landings callers (and no reset, no
\* outside edit of the file), no append is lost: every record whose append
\* returned is in the persisted log, and, when the process never crashed, the
\* log holds exactly one record per append that got as far as the rename.
C6_NoLostAppend ==
    (edits = 0 /\ resets = 0) =>
        /\ \A i \in 1..Len(okAppends) : InSeq(okAppends[i], TargetLog)
        /\ crashes = 0 =>
             Len(SelectSeq(TargetLog, LAMBDA r : r.ts > 0))
                = Len(okAppends) + Cardinality(Renamed)

C6_Witness ==
    /\ edits = 0 /\ resets = 0 /\ crashes = 0
    /\ Len(okAppends) = 2
    /\ okAppends[1].ts > okAppends[2].ts
    /\ TargetLog = okAppends

\* C7: at every step of a write, and after a crash at any of them, the log
\* path never holds a partly written document: until the rename it holds what
\* it held when the call began, from the rename on the whole new document.
C7_AtomicWrite ==
    /\ fs[TargetPath].st # "partial"
    /\ \A t \in StoreThreads :
         spre[t].e = edits =>
            /\ spc[t] \in WritePcs => fs[TargetPath] = spre[t].c
            /\ spc[t] = "w_done" => fs[TargetPath] = Full(sdata[t])

C7_Witness ==
    /\ crashes > 0
    /\ fs[TmpPath].st = "partial"
    /\ fs[TmpPath].doc.landings # <<>>
    /\ fs[TargetPath].st = "full"
    /\ fs[TargetPath].doc # fs[TmpPath].doc

\* C8: a log file that is absent, unparsable or ill-structured at construction
\* is rewritten as the empty log and the constructor does not raise (short of
\* a write error); the next append does not raise either and leaves the
\* persisted log holding exactly its one record.
C8_SelfHeal ==
    /\ spc[Main] = "failed" => lastRet = Ret("ensure", "OSError", <<>>)
    /\ (badStart /\ up /\ crashes = 0 /\ edits = 0) =>
        /\ (okAppends = <<>> /\ resets = 0 /\ Renamed = {}) => fs[TargetPath] = Full(EmptyLog)
        /\ lastRet.op = "append" => lastRet.outcome \in {"ok", "OSError"}
        /\ (Len(okAppends) = 1 /\ resets = 0 /\ Renamed = {}) => TargetLog = okAppends

C8_Witness ==
    /\ badStart /\ up /\ crashes = 0 /\ edits = 0 /\ resets = 0
    /\ lastRet = Ret("append", "ok", <<>>)
    /\ Len(okAppends) = 1
    /\ fs[TargetPath] = Full(Doc("obj", okAppends))

\* C9: whatever the log file holds at the time of the call, get_landings and
\* the read step of append treat it as the empty log and do not raise.
C9_ReadNeverRaises ==
    lastRet.op \in {"append", "get_landings"} => lastRet.outcome # "AttributeError"

\* C10: when the durable write inside append or reset fails, the error reaches
\* the caller, the lock is free again, and the log path holds what it held
\* before the call.
C10_WriteFailure ==
    [][\A t \in Workers :
         (crashes' = crashes /\ spc[t] \in WritePcs /\ spc'[t] = "idle") =>
            /\ lastRet' = Ret(sop[t], "OSError", <<>>)
            /\ lock' = NoThread
            /\ fs'[TargetPath] = fs[TargetPath]
            /\ spre[t].e = edits => fs'[TargetPath] = spre[t].c]_vars

C10_Witness ==
    /\ lastRet.outcome = "OSError"
    /\ lastRet.op \in {"append", "reset"}
    /\ lock = NoThread
    /\ TargetLog # <<>>

IsPrefix(a, b) == Len(a) <= Len(b) /\ SubSeq(b, 1, Len(a)) = a

\* the landings a reader of the content c gets
LogOf(c) == IF c.st = "full" /\ c.doc.k = "obj" THEN c.doc.landings ELSE <<>>

\* the records appended since the start (the call counter gives them ts > 0)
NewRecords(l) == SelectSeq(l, LAMBDA r : r.ts > 0)

\* the record of the append that has renamed and not yet returned
PendingRecords ==
    IF Renamed = {} THEN <<>> ELSE <<sarg[CHOOSE t \in Renamed : TRUE]>>

\* C11: with no reset (and no outside edit), the log is append-only and in the
\* order the appends were serialized: the records appended are those of the
\* appends that returned, in return order, then the one just renamed;
\* get_landings returns the log as it stood at the call; and every append's
\* rename leaves the log it read followed by its one record.
C11_AppendOnly ==
    /\ [](/\ (edits = 0 /\ resets = 0 /\ crashes = 0) =>
                NewRecords(TargetLog) = okAppends \o PendingRecords
          /\ (edits = 0 /\ resets = 0 /\ lastRet.op = "get_landings" /\ lastRet.outcome = "ok") =>
                IsPrefix(lastRet.value, TargetLog))
    /\ [][\A t \in Workers :
            (spc[t] = "w_rename" /\ spc'[t] = "w_done" /\ sop[t] = "append" /\ spre[t].e = edits) =>
                /\ fs[TargetPath] = spre[t].c
                /\ LogOf(fs'[TargetPath]) = Append(LogOf(fs[TargetPath]), sarg[t])]_vars

C11_Witness ==
    /\ edits = 0 /\ resets = 0 /\ crashes = 0
    /\ Len(okAppends) = 1
    /\ lastRet.op = "get_landings"
    /\ lastRet.value = <<VoteRecord(5, 0)>> \o okAppends
    /\ TargetLog = lastRet.value

\* C12: what the store writes parses back to the document it was given (the
\* temp file about to be renamed holds exactly the document of the call), and
\* get_landings, also of a store constructed anew over the same file, returns
\* the records of the appends that returned, unchanged and in their order.
C12_RoundTrip ==
    /\ \A t \in StoreThreads : spc[t] = "w_rename" => fs[TmpPath] = Full(sdata[t])
    /\ (edits = 0 /\ resets = 0 /\ lastRet.op = "get_landings" /\ lastRet.outcome = "ok") =>
            SelectSeq(lastRet.value, LAMBDA r : InSeq(r, okAppends)) = okAppends

C12_Witness ==
    /\ crashes > 0 /\ edits = 0 /\ resets = 0
    /\ up
    /\ lastRet.op = "get_landings"
    /\ Len(okAppends) = 1
    /\ lastRet.value = <<VoteRecord(5, 0)>> \o okAppends
    /\ okAppends[1].score = 7

----------------------------------------------------------------------------
(* The vote handler's pure parts (src/main.py) *)

Max(a, b) == IF a >= b THEN a ELSE b
Min(a, b) == IF a <= b THEN a ELSE b

\* clamped = max(1, min(10, int(score)))
ClampUpperOnly(score) == Min(10, score)
Clamp(score) == Max(1, Min(10, score))

LevelStrict(score) ==
    IF score < 3 THEN "bad"
    ELSE IF score < 6 THEN "ok"
    ELSE IF score < 8 THEN "good"
    ELSE "great"
level_for_score(score) ==
    IF score <= 3 THEN "bad"
    ELSE IF score <= 6 THEN "ok"
    ELSE IF score <= 8 THEN "good"
    ELSE "great"

\* @app.get('/vote/<int:score>'): the int converter matches digits only, so a
\* path segment with a minus sign matches no route and is answered 404
IntConverterMatches(s) == s >= 0

GenericQuote == "Well, that happened."

\* _load_default_quotes_payload(): the bundled lines (the built-in ones for
\* the scores the model votes)
DefaultQuotes(c) ==
    IF c = 1 THEN <<"Well, that was... educational.", "Physics called.">>
    ELSE IF c = 10 THEN <<"Absolute butter.">>
    ELSE <<"Nice! Most passengers missed it.">>

\* the try block of load_quotes: open, json.load and data.get('quotes', {})
\* under `except Exception: user_quotes = {}`
UserQuotesRead(file) ==
    IF file.shape \in {"absent", "junk", "array", "noquotes"}
    THEN [shape |-> "object", entries |-> [c \in 1..10 |-> NotGiven]]
    ELSE file

\* user_quotes' value under str(c), if any
UserEntry(file, c) ==
    IF c \in DOMAIN UserQuotesRead(file).entries THEN UserQuotesRead(file).entries[c] ELSE NotGiven

\* the mutant of the merge: the user's value taken as it is, list or not
MergedAsGiven(file, c) ==
    IF UserEntry(file, c).given
    THEN UserEntry(file, c).lines
    ELSE DefaultQuotes(c)
\* merged[str(k)] = list(v) if isinstance(v, list) else merged.get(str(k), [])
\* over the defaults
Merged(file, c) ==
    IF UserEntry(file, c).given /\ UserEntry(file, c).list
    THEN UserEntry(file, c).lines
    ELSE DefaultQuotes(c)

\* user_quotes.items() is outside the try: it raises for a "quotes" that is
\* no object
LoadQuotesRaises(file) == UserQuotesRead(file).shape = "quoteslist"

\* load_quotes() for the score c, read from quotes.json as it is now
load_quotes(c) == Merged(quotesFile, c)

\* get_random_quote(score): random.choice of the lines, or the generic line;
\* the generic line also when load_quotes raised
get_random_quote(c) ==
    IF ~LoadQuotesRaises(quotesFile) /\ load_quotes(c) # <<>>
    THEN {load_quotes(c)[i] : i \in 1..Len(load_quotes(c))}
    ELSE {GenericQuote}

\* the raw scores the model sends: below, inside and above 1..10
RawScores == {-5, 0, 7, 99}

\* the handler makes no DataStore call
VotePersistsYes == TRUE
VotePersists == FALSE

----------------------------------------------------------------------------
(* The audio cache: generate_audio_url and _increment_audio_play *)

\* md5 of f"{text}|voice={vid}|engine={engine}|fmt=...|region={AWS_REGION}":
\* the voice is read once per call; the region (like the format) is the module
\* global as it is when the key is computed
KeyOf(text, engine, r) == <<text, engine, r>>
AudioKey(text, engine) == KeyOf(text, engine, region)
\* an entry that starts with a play counted
AudioEntryPlayed(text, engine) ==
    [text |-> text, engine |-> engine, region |-> region,
     filename |-> AudioFilename(engine, text), play_count |-> 1]
\* index[key_hash] = {'text': text, ..., 'engine': engine, ..., 'filename':
\* audio_filename, ..., 'region': AWS_REGION, 'play_count': 0}, the region as
\* the global is when the entry is built
AudioEntry(text, engine) ==
    [text |-> text, engine |-> engine, region |-> region,
     filename |-> AudioFilename(engine, text), play_count |-> 0]
AltEngineSame(engine) == engine
AltEngine(engine) == IF engine = "neural" THEN "standard" ELSE "neural"
SynthOutcomes == {"ok", "ClientError", "Error"}

\* one polly_client.synthesize_speech call: the engine asked for, and the answer
SynthCall(engine, outcome) == [engine |-> engine, outcome |-> outcome]

\* files and index after a successful synthesize_speech with `engine`
Synthesized(how, text, engine, calls) ==
    [how |-> how,
     url |-> AudioUrl(AudioFilename(engine, text)),
     files |-> audioFiles \cup {AudioFilename(engine, text)},
     index |-> (AudioKey(text, engine) :> AudioEntry(text, engine)) @@ audioIndex,
     calls |-> calls]
NoAudio(how, calls) ==
    [how |-> how, url |-> EmptyLocator, files |-> audioFiles, index |-> audioIndex, calls |-> calls]

\* generate_audio_url(text) with TTS enabled: `engine` is what
\* pick_engine_for_voice found, o1 and o2 how the provider answers the first
\* call and the retry with the alternate engine
generate_audio_url(text, engine, o1, o2) ==
    LET key == AudioKey(text, engine)
        first == SynthCall(engine, o1)
        retry == SynthCall(AltEngine(engine), o2) IN
    IF key \in DOMAIN audioIndex /\ audioIndex[key].filename \in audioFiles
    THEN [how |-> "hit", url |-> AudioUrl(audioIndex[key].filename),
          files |-> audioFiles, index |-> audioIndex, calls |-> <<>>]
    ELSE IF o1 = "ok" THEN Synthesized("synth", text, engine, <<first>>)
    ELSE IF o1 = "Error" THEN NoAudio("error", <<first>>)
    ELSE IF o2 = "ok" THEN Synthesized("alt", text, AltEngine(engine), <<first, retry>>)
    ELSE IF o2 = "Error" THEN NoAudio("error", <<first, retry>>)
    ELSE NoAudio("failed", <<first, retry>>)

\* play_count + 1 on every entry
IncrementAllEntries(index, text, engine) ==
    [k \in DOMAIN index |-> [index[k] EXCEPT !.play_count = @ + 1]]

\* _increment_audio_play(text): play_count + 1 on the entry under the key of
\* the engine pick_engine_for_voice finds now; no entry, no change
increment_audio_play(index, text, engine) ==
    LET key == AudioKey(text, engine) IN
    IF key \in DOMAIN index
    THEN [index EXCEPT ![key].play_count = @ + 1]
    ELSE index

----------------------------------------------------------------------------
(* GET /vote/<int:score> *)

\* A request arrives, over HTTP through the route (http), or as a direct call
\* of the view function.  The route answers a segment it does not match with
\* 404; otherwise the handler clamps the score and picks the quote q.
VoteReceive(t, s, http, q) ==
    /\ vpc[t] = "idle"
    /\ votes < MaxVotes
    /\ votes' = votes + 1
    /\ IF http /\ ~IntConverterMatches(s)
       THEN /\ q = GenericQuote
            /\ lastResp' = [NoResp EXCEPT !.status = 404, !.raw = s, !.http = http]
            /\ UNCHANGED <<vpc, vreq, vhist>>
       ELSE /\ q \in get_random_quote(Clamp(s))
            /\ vreq' = [vreq EXCEPT ![t] =
                          [NoReq EXCEPT !.raw = s, !.http = http, !.clamped = Clamp(s), !.quote = q]]
            /\ vhist' = [vhist EXCEPT ![t] = <<"RECEIVED", "CLAMPED", "QUOTE_SELECTED">>]
            /\ vpc' = [vpc EXCEPT ![t] = "quote"]
            /\ UNCHANGED lastResp
    /\ UNCHANGED <<appVars, storeVars, hubVars, audioVars, envVars>>

\* audio_url = generate_audio_url(quote) if tts_enabled, and
\* _increment_audio_play(quote) when that gave a locator (e2: the engine the
\* second catalog lookup finds)
VoteAudio(t, engine, e2, o1, o2) ==
    /\ vpc[t] = "quote"
    /\ LET r == IF ttsEnabled
                THEN generate_audio_url(vreq[t].quote, engine, o1, o2)
                ELSE NoAudio("disabled", <<>>) IN
        /\ vreq' = [vreq EXCEPT ![t].audio = r.how, ![t].audio_url = r.url, ![t].calls = r.calls]
        /\ audioFiles' = r.files
        /\ UNCHANGED indexVars
        /\ audioIndex' = IF r.url # EmptyLocator
                         THEN increment_audio_play(r.index, vreq[t].quote, e2)
                         ELSE r.index
    /\ vhist' = [vhist EXCEPT ![t] = Append(@, "AUDIO_RESOLVED")]
    /\ vpc' = [vpc EXCEPT ![t] = "audio"]
    /\ UNCHANGED <<appVars, storeVars, hubVars, lastResp, votes, envVars>>

\* The same two steps of vote() with the two reads of ENABLE_TTS apart: vote()
\* reloads .env and reads the setting, and generate_audio_url, when it is
\* called, reloads .env and reads it again.
TtsIgnored(seen) == TRUE
\* `if tts_enabled:` in vote(), `if not tts_enabled: return ""` in generate_audio_url
TtsGuard(seen) == seen

VoteTts(t) ==
    /\ vpc[t] = "quote"
    /\ vpc' = [vpc EXCEPT ![t] = IF ttsEnabled THEN "tts_on" ELSE "tts_off"]
    /\ UNCHANGED <<appVars, storeVars, hubVars, audioVars, vreq, vhist, lastResp, votes, envVars>>

VoteResolve(t, engine, e2, o1, o2) ==
    /\ vpc[t] \in {"tts_on", "tts_off"}
    /\ LET r == IF TtsGuard(vpc[t] = "tts_on") /\ TtsGuard(ttsEnabled)
                THEN generate_audio_url(vreq[t].quote, engine, o1, o2)
                ELSE NoAudio("disabled", <<>>) IN
        /\ vreq' = [vreq EXCEPT ![t].audio = r.how, ![t].audio_url = r.url, ![t].calls = r.calls]
        /\ audioFiles' = r.files
        /\ UNCHANGED indexVars
        /\ audioIndex' = IF r.url # EmptyLocator
                         THEN increment_audio_play(r.index, vreq[t].quote, e2)
                         ELSE r.index
    /\ vhist' = [vhist EXCEPT ![t] = Append(@, "AUDIO_RESOLVED")]
    /\ vpc' = [vpc EXCEPT ![t] = "audio"]
    /\ UNCHANGED <<appVars, storeVars, hubVars, lastResp, votes, envVars>>

\* time.strftime('%Y-%m-%dT%H:%M:%SZ', time.gmtime()): the clock advances with
\* the requests, so two events composed between two arrivals carry the same ts
Now == votes

\* the event: type, score, quote, audio_url, level, ts (and enable_tts,
\* message, duration_ms, effects, which come from the configuration)
Payload(r) ==
    [type |-> "vote", score |-> r.clamped, quote |-> r.quote, audio_url |-> r.audio_url,
     level |-> level_for_score(r.clamped), ts |-> Now]

\* put_nowait on a Queue() without maxsize never finds it full
QueueAcceptsBounded(q) == Len(q) < 1
QueueAccepts(q) == TRUE

\* put_nowait never waits for room in the queue
PutBlocksWhenNotEmpty(q) == Len(q) >= 1
PutBlocks(q) == FALSE

\* put_nowait puts the item on the queue once
EnqueuedTwice(q, item) == q \o <<item, item>>
\* Queue is first in, first out: put adds at the tail, get takes the head
EnqueuedInFront(q, item) == <<item>> \o q
Enqueued(q, item) == Append(q, item)

\* SSEHub.unregister: self.clients.remove(q) takes the queue out of the list;
\* the ValueError for a queue that is not in it is caught
UnregisterUncaught(cl, c) ==
    IF \E i \in 1..Len(cl) : cl[i] = c
    THEN [clients |-> SelectSeq(cl, LAMBDA x : x # c), outcome |-> "ok"]
    ELSE [clients |-> cl, outcome |-> "ValueError"]
Unregister(cl, c) ==
    [clients |-> SelectSeq(cl, LAMBDA x : x # c), outcome |-> "ok"]

\* payload = {...}; hub.broadcast(payload): under the hub's lock, copy the
\* list of registered queues
VoteBroadcast(t) ==
    /\ vpc[t] = "audio"
    /\ IF VotePersists /\ ~diskOK
       THEN \* what a handler that appended to the store would do on a write error
            /\ lastResp' = [NoResp EXCEPT !.status = 500, !.raw = vreq[t].raw, !.http = vreq[t].http,
                                          !.hist = vhist[t]]
            /\ vpc' = [vpc EXCEPT ![t] = "idle"]
            /\ vreq' = [vreq EXCEPT ![t] = NoReq]
            /\ vhist' = [vhist EXCEPT ![t] = <<>>]
            /\ UNCHANGED fs
       ELSE /\ vreq' = [vreq EXCEPT ![t].payload = Payload(vreq[t]), ![t].calls = <<>>,
                                    ![t].targets = clients, ![t].todo = clients]
            /\ vpc' = [vpc EXCEPT ![t] = "put"]
            /\ fs' = IF VotePersists
                     THEN [fs EXCEPT ![TargetPath] =
                             Full(Appended(ReadOrDefault(fs[TargetPath]),
                                           VoteRecord(vreq[t].clamped, Now)))]
                     ELSE fs
            /\ vhist' = IF VotePersists THEN [vhist EXCEPT ![t] = Append(@, "PERSISTED")] ELSE vhist
            /\ UNCHANGED lastResp
    /\ UNCHANGED <<lock, up, spc, sop, sarg, sdata, spre, lastRet, diskOK,
                   okAppends, resets, edits, crashes, ops, badStart>>
    /\ UNCHANGED <<appVars, hubVars, audioVars, votes, envVars>>

\* for q in clients: q.put_nowait(payload), one queue at a time, outside the
\* lock (a queue whose connection has closed meanwhile is garbage)
BroadcastPut(t) ==
    /\ vpc[t] = "put"
    /\ vreq[t].todo # <<>>
    /\ LET c == Head(vreq[t].todo) IN
        /\ ~PutBlocks(queues[c])
        /\ queues' = IF conn[c] # "closed" /\ QueueAccepts(queues[c])
                     THEN [queues EXCEPT ![c] = Enqueued(@, vreq[t].payload)]
                     ELSE queues
    /\ vreq' = [vreq EXCEPT ![t].todo = Tail(@)]
    /\ UNCHANGED <<appVars, storeVars, clients, conn, sent, hubRet, audioVars, vpc, vhist, lastResp, votes, envVars>>

\* the event in the response: the payload that was broadcast
ResponseEventRebuilt(r) == Payload(r)
ResponseEvent(r) == r.payload

\* return jsonify(payload)
VoteRespond(t) ==
    /\ vpc[t] = "put"
    /\ vreq[t].todo = <<>>
    /\ lastResp' = [status |-> 200, body |-> ResponseEvent(vreq[t]), raw |-> vreq[t].raw,
                    http |-> vreq[t].http,
                    hist |-> vhist[t] \o <<"BROADCAST", "RESPONDED">>]
    /\ vpc' = [vpc EXCEPT ![t] = "idle"]
    /\ vreq' = [vreq EXCEPT ![t] = NoReq]
    /\ vhist' = [vhist EXCEPT ![t] = <<>>]
    /\ UNCHANGED <<appVars, storeVars, hubVars, audioVars, votes, envVars>>

----------------------------------------------------------------------------
(* GET /stream *)

\* q = hub.register()
StreamRegister(c) ==
    /\ conn[c] = "new"
    /\ conn' = [conn EXCEPT ![c] = "registered"]
    /\ clients' = Append(clients, c)
    /\ hubRet' = NoHubRet
    /\ UNCHANGED <<appVars, storeVars, queues, sent, voteVars, audioVars>>

\* yield sse_format({'type': 'hello'}): the hello is written to the
\* connection and the generator goes on into its try block
StreamHello(c) ==
    /\ conn[c] = "registered"
    /\ conn' = [conn EXCEPT ![c] = "streaming"]
    /\ sent' = [sent EXCEPT ![c] = Append(@, Hello)]
    /\ UNCHANGED <<appVars, storeVars, clients, queues, hubRet, voteVars, audioVars>>

\* item = q.get(timeout=60); yield sse_format(item)
StreamDeliver(c) ==
    /\ conn[c] = "streaming"
    /\ queues[c] # <<>>
    /\ sent' = [sent EXCEPT ![c] = Append(@, Head(queues[c]))]
    /\ queues' = [queues EXCEPT ![c] = Tail(@)]
    /\ UNCHANGED <<appVars, storeVars, clients, conn, hubRet, voteVars, audioVars>>

\* q.get(timeout=60) raises Empty: the queue held nothing for the 60 seconds
TimedOutAnyway(q) == TRUE
TimedOut(q) == q = <<>>

\* except Empty: yield ": keep-alive\n\n"; continue
KeepAlive == [type |-> "keep-alive"]
KeepAlives(c) == Len(SelectSeq(sent[c], LAMBDA e : e = KeepAlive))
StreamKeepAlive(c) ==
    /\ conn[c] = "streaming"
    /\ TimedOut(queues[c])
    /\ KeepAlives(c) < MaxKeepAlives
    /\ sent' = [sent EXCEPT ![c] = Append(@, KeepAlive)]
    /\ UNCHANGED <<appVars, storeVars, clients, queues, conn, hubRet, voteVars, audioVars>>

\* the consumer disconnects: GeneratorExit, finally: hub.unregister(q); the
\* queue and what was written to the connection are gone with it
StreamClose(c) ==
    /\ conn[c] = "streaming"
    /\ conn' = [conn EXCEPT ![c] = "closed"]
    /\ clients' = Unregister(clients, c).clients
    /\ queues' = [queues EXCEPT ![c] = <<>>]
    /\ sent' = [sent EXCEPT ![c] = <<>>]
    /\ hubRet' = NoHubRet
    /\ UNCHANGED <<appVars, storeVars, voteVars, audioVars>>

\* The connection ends before the generator has entered its try block: the
\* response body is never iterated (a HEAD request), or the generator is
\* closed at the hello yield (the hello could not be written).  The yield of
\* the hello is outside try/finally, so hub.unregister(q) does not run.
StreamAbort(c) ==
    /\ conn[c] = "registered"
    /\ conn' = [conn EXCEPT ![c] = "closed"]
    /\ queues' = [queues EXCEPT ![c] = <<>>]
    /\ hubRet' = NoHubRet
    /\ UNCHANGED <<appVars, storeVars, clients, sent, voteVars, audioVars>>

\* hub.unregister(q) called for a queue whose connection has not registered
\* yet or has closed already
HubUnregister(c) ==
    /\ conn[c] \in {"new", "closed"}
    /\ clients' = Unregister(clients, c).clients
    /\ hubRet' = [op |-> "unregister", arg |-> c, outcome |-> Unregister(clients, c).outcome]
    /\ UNCHANGED <<appVars, storeVars, queues, conn, sent, voteVars, audioVars>>

----------------------------------------------------------------------------
(* The environment of the HTTP layer *)

\* the control panel saves ENABLE_TTS to .env; the handler reloads it on every vote
ToggleTTS ==
    /\ ttsEnabled' = ~ttsEnabled
    /\ UNCHANGED <<appVars, storeVars, hubVars, audioVars, vpc, vreq, vhist, lastResp, votes, quotesFile, region>>

\* the server is up: the store was constructed over an empty log, nobody is
\* connected; the store's directory takes writes, or rejects them
Init ==
    /\ fs = [p \in Paths |-> IF p = TargetPath THEN Full(EmptyLog) ELSE Absent]
    /\ badStart = FALSE
    /\ lock = NoThread
    /\ up = TRUE
    /\ spc = [t \in StoreThreads |-> "idle"]
    /\ sop = [t \in StoreThreads |-> "none"]
    /\ sarg = [t \in StoreThreads |-> NoArg]
    /\ sdata = [t \in StoreThreads |-> EmptyLog]
    /\ spre = [t \in StoreThreads |-> NoPre]
    /\ lastRet = NoRet
    /\ diskOK \in BOOLEAN
    /\ okAppends = <<>>
    /\ resets = 0
    /\ edits = 0
    /\ crashes = 0
    /\ ops = 0
    /\ HttpInit
    /\ AppInit

\* pick_engine_for_voice for the configured voice: the default voice supports
\* the neural engine
CatalogEngine == "neural"

\* the scores asked for: one in the range, one above it
VoteScores == {7, 99}

\* the overlay page open in the streaming program's browser source
Overlays == {"c1"}

\* the score the pipeline's requests ask for
PipelineScores == {99}

\* The vote pipeline: requests over HTTP, handled by the server's threads, with
\* the audio cache, the hub and its overlay connections.
Next ==
    \/ \E t \in Workers, s \in PipelineScores :
           \E q \in get_random_quote(Clamp(s)) : VoteReceive(t, s, TRUE, q)
    \/ \E t \in Workers, o1 \in SynthOutcomes, o2 \in SynthOutcomes :
           VoteAudio(t, CatalogEngine, CatalogEngine, o1, o2)
    \/ \E t \in Workers : VoteBroadcast(t)
    \/ \E t \in Workers : BroadcastPut(t)
    \/ \E t \in Workers : VoteRespond(t)
    \/ \E c \in Overlays : StreamRegister(c)
    \/ \E c \in Overlays : StreamHello(c)
    \/ \E c \in Overlays : StreamDeliver(c)
    \/ \E c \in Overlays : StreamClose(c)
    \/ ToggleTTS

Spec == Init /\ [][Next]_vars

\* The scores: any integer, over HTTP or by a direct call of the view function,
\* with no overlay connected and the speech provider out of reach.
NextScore ==
    \/ \E t \in Workers, s \in RawScores, http \in BOOLEAN :
           \E q \in get_random_quote(Clamp(s)) \cup {GenericQuote} : VoteReceive(t, s, http, q)
    \/ \E t \in Workers : VoteAudio(t, CatalogEngine, CatalogEngine, "Error", "Error")
    \/ \E t \in Workers : VoteBroadcast(t)
    \/ \E t \in Workers : VoteRespond(t)

SpecScore == Init /\ [][NextScore]_vars

\* the score the hub's publishers vote
HubScores == {7}

\* The hub: two request threads publishing vote events (the speech provider
\* out of reach), /stream connections that come and go, and direct calls of
\* hub.unregister.
NextHub ==
    \/ \E t \in Workers, s \in HubScores :
           \E q \in get_random_quote(Clamp(s)) : VoteReceive(t, s, TRUE, q)
    \/ \E t \in Workers : VoteAudio(t, CatalogEngine, CatalogEngine, "Error", "Error")
    \/ \E t \in Workers : VoteBroadcast(t)
    \/ \E t \in Workers : BroadcastPut(t)
    \/ \E t \in Workers : VoteRespond(t)
    \/ \E c \in Conns : StreamRegister(c)
    \/ \E c \in Conns : StreamHello(c)
    \/ \E c \in Conns : StreamDeliver(c)
    \/ \E c \in Conns : StreamClose(c)
    \/ \E c \in Conns : StreamAbort(c)
    \/ \E c \in Conns : HubUnregister(c)

\* the server is up and the store's directory takes writes
InitHub == Init /\ diskOK = TRUE

SpecHub == InitHub /\ [][NextHub]_vars

\* the scores voted for the tiers: every score of 1..10 and one on each side
LevelScores == 0..11

\* The tiers: votes for every score, with no overlay connected and the speech
\* provider out of reach.
NextLevel ==
    \/ \E t \in Workers, s \in LevelScores :
           \E q \in get_random_quote(Clamp(s)) : VoteReceive(t, s, TRUE, q)
    \/ \E t \in Workers : VoteAudio(t, CatalogEngine, CatalogEngine, "Error", "Error")
    \/ \E t \in Workers : VoteBroadcast(t)
    \/ \E t \in Workers : VoteRespond(t)

SpecLevel == InitHub /\ [][NextLevel]_vars

\* The stream loop: one overlay connection that is sent events and keep-alives
\* while two request threads publish (the speech provider out of reach).
NextKeep ==
    \/ \E t \in Workers, s \in HubScores :
           \E q \in get_random_quote(Clamp(s)) : VoteReceive(t, s, TRUE, q)
    \/ \E t \in Workers : VoteAudio(t, CatalogEngine, CatalogEngine, "Error", "Error")
    \/ \E t \in Workers : VoteBroadcast(t)
    \/ \E t \in Workers : BroadcastPut(t)
    \/ \E t \in Workers : VoteRespond(t)
    \/ \E c \in Overlays : StreamRegister(c)
    \/ \E c \in Overlays : StreamHello(c)
    \/ \E c \in Overlays : StreamDeliver(c)
    \/ \E c \in Overlays : StreamKeepAlive(c)
    \/ \E c \in Overlays : StreamClose(c)

\* the generator runs as long as the connection lasts: a get on a queue that
\* holds an event returns
SpecKeep ==
    InitHub /\ [][NextKeep]_vars /\ \A c \in Overlays : WF_vars(StreamDeliver(c))

\* The TTS switch: votes while the control panel turns ENABLE_TTS off and on,
\* the provider answering each synthesis call in any of its ways; no overlay
\* is connected.
NextTts ==
    \/ \E t \in Workers, s \in VoteScores :
           \E q \in get_random_quote(Clamp(s)) : VoteReceive(t, s, TRUE, q)
    \/ \E t \in Workers : VoteTts(t)
    \/ \E t \in Workers, o1 \in SynthOutcomes, o2 \in SynthOutcomes :
           VoteResolve(t, CatalogEngine, CatalogEngine, o1, o2)
    \/ \E t \in Workers : VoteBroadcast(t)
    \/ \E t \in Workers : VoteRespond(t)
    \/ ToggleTTS

SpecTts == InitHub /\ [][NextTts]_vars

\* quotes.json is edited, removed or half-written while the server runs (the
\* control panel saves it, the user edits it); every vote reads it afresh
QuoteFiles ==
    {QuotesDoc(shape, NotGiven, NotGiven) : shape \in {"absent", "junk", "array", "noquotes", "quoteslist"}}
    \cup {QuotesDoc("object", seven, ten) :
            seven \in {NotGiven, QuoteEntry(TRUE, TRUE, <<>>), QuoteEntry(TRUE, TRUE, <<"Custom line.">>),
                       QuoteEntry(TRUE, FALSE, <<"Not a list.">>)},
            ten \in {NotGiven, QuoteEntry(TRUE, TRUE, <<"Custom butter.">>)}}
EditQuotes(file) ==
    /\ quotesFile # file
    /\ quotesFile' = file
    /\ UNCHANGED <<appVars, storeVars, hubVars, audioVars, vpc, vreq, vhist, lastResp, votes, ttsEnabled, region>>

\* the scores voted while quotes.json changes
QuoteScores == {7, 10}

\* The quotes: votes while quotes.json changes, with no overlay connected and
\* the speech provider out of reach.
NextQuote ==
    \/ \E t \in Workers, s \in QuoteScores :
           \E q \in get_random_quote(Clamp(s)) : VoteReceive(t, s, TRUE, q)
    \/ \E t \in Workers : VoteAudio(t, CatalogEngine, CatalogEngine, "Error", "Error")
    \/ \E t \in Workers : VoteBroadcast(t)
    \/ \E t \in Workers : VoteRespond(t)
    \/ \E file \in QuoteFiles : EditQuotes(file)

SpecQuote == InitHub /\ [][NextQuote]_vars

\* The audio cache: votes for the same line and for different lines, resolved
\* by two request threads with the configured voice, the provider answering
\* each synthesis call in any of its ways; no overlay is connected.
NextAudio ==
    \/ \E t \in Workers, s \in VoteScores :
           \E q \in get_random_quote(Clamp(s)) : VoteReceive(t, s, TRUE, q)
    \/ \E t \in Workers, o1 \in SynthOutcomes, o2 \in SynthOutcomes :
           VoteAudio(t, CatalogEngine, CatalogEngine, o1, o2)
    \/ \E t \in Workers : VoteBroadcast(t)
    \/ \E t \in Workers : VoteRespond(t)

SpecAudio == InitHub /\ [][NextAudio]_vars

----------------------------------------------------------------------------
(* generate_audio_url and _increment_audio_play step by step: each read  *)
(* and each write of audio_index.json and of the artifact files is a     *)
(* step of its own, so that calls made by concurrent request threads     *)
(* interleave as the code lets them (no lock guards the index).          *)

\* `except Exception:` takes every exception the body raises
CaughtClientErrorOnly(exc) == exc = "ClientError"
Caught(exc) == TRUE

\* the call of thread t ends: it returns value, or lets an exception out
AudioEnds(t, outcome, value, fault) ==
    /\ apc' = [apc EXCEPT ![t] = "idle"]
    /\ aloc' = [aloc EXCEPT ![t] =
                  [NoCall EXCEPT !.due = IF aloc[t].op = "resolve" /\ outcome = "returned"
                                            /\ value # EmptyLocator
                                         THEN aloc[t].text ELSE ""]]
    /\ aret' = [op |-> aloc[t].op, text |-> aloc[t].text, outcome |-> outcome,
                value |-> value, faults |-> aloc[t].faults \cup fault]

\* an exception reaches the function's outer handler, which returns value
AudioRaises(t, exc, value, fault) ==
    IF Caught(exc) THEN AudioEnds(t, "returned", value, fault)
    ELSE AudioEnds(t, "raised", exc, fault)

\* what open(AUDIO_INDEX_PATH, 'r') and json.load give: the mapping, or an
\* exception when the file does not parse; a missing file is the empty mapping
IndexReadRaises == indexTorn
IndexRead == IF indexTorn THEN <<>> ELSE audioIndex

\* a request thread's vote handler calls generate_audio_url(text), and
\* _increment_audio_play(text) after a call that returned a locator
AudioCall(t, op, text) ==
    /\ apc[t] = "idle"
    /\ aloc[t].due = IF op = "increment" THEN text ELSE ""
    /\ acalls < MaxAudioCalls
    /\ acalls' = acalls + 1
    /\ apc' = [apc EXCEPT ![t] = IF op = "resolve" THEN "g_load" ELSE "i_load"]
    /\ aloc' = [aloc EXCEPT ![t] = [NoCall EXCEPT !.op = op, !.text = text]]
    /\ overlap' = (overlap \/ \E u \in Workers \ {t} : apc[u] # "idle")
    /\ UNCHANGED <<appVars, storeVars, hubVars, voteVars, audioIndex, audioFiles, indexTorn, aret,
                   savedKeys, plays, peak, deletions>>

\* generate_audio_url up to the cache lookup: build_polly and the catalog
\* (setup: "ok" or an exception), the index loaded (unparsable: index = {}),
\* the entry under the key of the catalog's engine and its file looked for
GLoad(t, setup) ==
    /\ apc[t] = "g_load"
    /\ LET key == AudioKey(aloc[t].text, CatalogEngine)
           fault == IF IndexReadRaises THEN {"index_read"} ELSE {} IN
       IF setup # "ok"
       THEN AudioRaises(t, setup, EmptyLocator, {"setup"})
       ELSE IF key \in DOMAIN IndexRead /\ IndexRead[key].filename \in audioFiles
       THEN AudioEnds(t, "returned", AudioUrl(IndexRead[key].filename), fault)
       ELSE /\ apc' = [apc EXCEPT ![t] = "g_synth"]
            /\ aloc' = [aloc EXCEPT ![t].key = key, ![t].pre = IndexRead, ![t].idx = IndexRead,
                                    ![t].faults = @ \cup fault]
            /\ UNCHANGED aret
    /\ UNCHANGED <<appVars, storeVars, hubVars, voteVars, audioIndex, audioFiles, indexTorn,
                   savedKeys, plays, peak, overlap, acalls, deletions>>

\* the key after the retry: computed again for the engine that answered (and
\* the region as it is then)
RecomputedKey(text, engine) == AudioKey(text, engine)

\* synthesize_speech with the catalog's engine and, after a ClientError, once
\* more with the other engine: engine and file name are those of the call
\* that succeeded, the key is the lookup's or the one computed after the retry
GSynth(t, o1, o2) ==
    /\ apc[t] = "g_synth"
    /\ LET engine == IF o1 = "ok" THEN CatalogEngine ELSE AltEngine(CatalogEngine) IN
       IF o1 = "ok" \/ (o1 = "ClientError" /\ o2 = "ok")
       THEN /\ o1 = "ok" => o2 = "ok"
            /\ apc' = [apc EXCEPT ![t] = "g_write"]
            /\ aloc' = [aloc EXCEPT ![t].engine = engine,
                                    ![t].filename = AudioFilename(engine, aloc[t].text),
                                    ![t].key = IF o1 = "ok" THEN aloc[t].key
                                               ELSE RecomputedKey(aloc[t].text, engine)]
            /\ UNCHANGED aret
       ELSE IF o1 = "ClientError" /\ o2 = "ClientError"
       THEN AudioEnds(t, "returned", EmptyLocator, {"synth"})
       ELSE /\ o1 = "Error" => o2 = "Error"
            /\ AudioRaises(t, "Error", EmptyLocator, {"synth"})
    /\ UNCHANGED <<appVars, storeVars, hubVars, voteVars, audioIndex, audioFiles, indexTorn,
                   savedKeys, plays, peak, overlap, acalls, deletions>>

\* the artifact file is written (or the write raises), and the entry is put
\* into the loaded index with play_count 0
GWrite(t, written) ==
    /\ apc[t] = "g_write"
    /\ IF written
       THEN /\ audioFiles' = audioFiles \cup {aloc[t].filename}
            /\ apc' = [apc EXCEPT ![t] = "g_open"]
            /\ aloc' = [aloc EXCEPT ![t].idx =
                          (aloc[t].key :> AudioEntry(aloc[t].text, aloc[t].engine)) @@ @]
            /\ UNCHANGED aret
       ELSE /\ AudioRaises(t, "OSError", EmptyLocator, {"file"})
            /\ UNCHANGED audioFiles
    /\ UNCHANGED <<appVars, storeVars, hubVars, voteVars, audioIndex, indexTorn,
                   savedKeys, plays, peak, overlap, acalls, deletions>>

\* open(AUDIO_INDEX_PATH, 'w') truncates the index file; when it raises, the
\* handler around the save passes and the locator is returned
GSaveOpen(t, opened) ==
    /\ apc[t] = "g_open"
    /\ IF opened
       THEN /\ audioIndex' = <<>>
            /\ indexTorn' = TRUE
            /\ apc' = [apc EXCEPT ![t] = "g_dump"]
            /\ UNCHANGED <<aloc, aret>>
       ELSE /\ AudioEnds(t, "returned", AudioUrl(aloc[t].filename), {"index_write"})
            /\ UNCHANGED <<audioIndex, indexTorn>>
    /\ UNCHANGED <<appVars, storeVars, hubVars, voteVars, audioFiles,
                   savedKeys, plays, peak, overlap, acalls, deletions>>

\* the highest play_count written so far, after index is written
Peaked(index) ==
    [k \in IndexKeys |-> IF k \in DOMAIN index THEN Max(peak[k], index[k].play_count) ELSE peak[k]]

\* json.dump(index, f): the whole index as this call holds it replaces the
\* file's content; the locator is returned
GSaveDump(t) ==
    /\ apc[t] = "g_dump"
    /\ audioIndex' = aloc[t].idx
    /\ indexTorn' = FALSE
    /\ savedKeys' = savedKeys \cup {aloc[t].key}
    /\ peak' = Peaked(aloc[t].idx)
    /\ AudioEnds(t, "returned", AudioUrl(aloc[t].filename), {})
    /\ UNCHANGED <<appVars, storeVars, hubVars, voteVars, audioFiles, plays, overlap, acalls, deletions>>

\* _increment_audio_play up to the lookup: any exception (setup, an index file
\* that does not parse) ends the call silently, and so does a missing entry
ILoad(t, setup) ==
    /\ apc[t] = "i_load"
    /\ LET key == AudioKey(aloc[t].text, CatalogEngine) IN
       IF setup # "ok"
       THEN AudioRaises(t, setup, <<>>, {"setup"})
       ELSE IF IndexReadRaises
       THEN AudioRaises(t, "Error", <<>>, {"index_read"})
       ELSE IF key \notin DOMAIN IndexRead
       THEN AudioEnds(t, "returned", <<>>, {})
       ELSE /\ apc' = [apc EXCEPT ![t] = "i_open"]
            /\ aloc' = [aloc EXCEPT ![t].key = key, ![t].pre = IndexRead,
                                    ![t].idx = increment_audio_play(IndexRead, aloc[t].text, CatalogEngine)]
            /\ UNCHANGED aret
    /\ UNCHANGED <<appVars, storeVars, hubVars, voteVars, audioIndex, audioFiles, indexTorn,
                   savedKeys, plays, peak, overlap, acalls, deletions>>

ISaveOpen(t, opened) ==
    /\ apc[t] = "i_open"
    /\ IF opened
       THEN /\ audioIndex' = <<>>
            /\ indexTorn' = TRUE
            /\ apc' = [apc EXCEPT ![t] = "i_dump"]
            /\ UNCHANGED <<aloc, aret>>
       ELSE /\ AudioRaises(t, "OSError", <<>>, {"index_write"})
            /\ UNCHANGED <<audioIndex, indexTorn>>
    /\ UNCHANGED <<appVars, storeVars, hubVars, voteVars, audioFiles,
                   savedKeys, plays, peak, overlap, acalls, deletions>>

ISaveDump(t) ==
    /\ apc[t] = "i_dump"
    /\ audioIndex' = aloc[t].idx
    /\ indexTorn' = FALSE
    /\ plays' = [plays EXCEPT ![aloc[t].key] = @ + 1]
    /\ peak' = Peaked(aloc[t].idx)
    /\ AudioEnds(t, "returned", <<>>, {})
    /\ UNCHANGED <<appVars, storeVars, hubVars, voteVars, audioFiles, savedKeys, overlap, acalls, deletions>>

\* an artifact file is deleted from outside (the index entry stays)
DeleteAudioFile(f) ==
    /\ f \in audioFiles
    /\ deletions < MaxEnvEvents
    /\ deletions' = deletions + 1
    /\ audioFiles' = audioFiles \ {f}
    /\ UNCHANGED <<appVars, storeVars, hubVars, voteVars, audioIndex, indexTorn, apc, aloc, aret,
                   savedKeys, plays, peak, overlap, acalls>>

\* the control panel's Save, on the user interface thread: AWS_REGION =
\* self.region_combo.currentText(), whatever the request threads are doing
SaveSettings(r) ==
    /\ region # r
    /\ region' = r
    /\ UNCHANGED <<appVars, storeVars, hubVars, audioVars, vpc, vreq, vhist, lastResp, votes,
                   ttsEnabled, quotesFile>>

\* what goes wrong before the first provider call: nothing, or an exception
\* (credentials, network)
SetupOutcomes == {"ok", "Error"}

\* The audio index: two request threads calling generate_audio_url and
\* _increment_audio_play, the provider and the file system answering in any
\* of their ways, artifact files deleted from outside.
NextIndex ==
    \/ \E t \in Workers, op \in {"resolve", "increment"}, x \in IndexTexts : AudioCall(t, op, x)
    \/ \E t \in Workers, setup \in SetupOutcomes : GLoad(t, setup)
    \/ \E t \in Workers, o1 \in SynthOutcomes, o2 \in SynthOutcomes : GSynth(t, o1, o2)
    \/ \E t \in Workers, written \in BOOLEAN : GWrite(t, written)
    \/ \E t \in Workers, opened \in BOOLEAN : GSaveOpen(t, opened)
    \/ \E t \in Workers : GSaveDump(t)
    \/ \E t \in Workers, setup \in SetupOutcomes : ILoad(t, setup)
    \/ \E t \in Workers, opened \in BOOLEAN : ISaveOpen(t, opened)
    \/ \E t \in Workers : ISaveDump(t)
    \/ \E f \in audioFiles : DeleteAudioFile(f)

SpecIndex == InitHub /\ [][NextIndex]_vars

\* The same calls while the settings are saved from the control panel.
NextRegion ==
    \/ \E t \in Workers, op \in {"resolve", "increment"}, x \in IndexTexts : AudioCall(t, op, x)
    \/ \E t \in Workers, setup \in SetupOutcomes : GLoad(t, setup)
    \/ \E t \in Workers, o1 \in SynthOutcomes, o2 \in SynthOutcomes : GSynth(t, o1, o2)
    \/ \E t \in Workers, written \in BOOLEAN : GWrite(t, written)
    \/ \E t \in Workers, opened \in BOOLEAN : GSaveOpen(t, opened)
    \/ \E t \in Workers : GSaveDump(t)
    \/ \E t \in Workers, setup \in SetupOutcomes : ILoad(t, setup)
    \/ \E t \in Workers, opened \in BOOLEAN : ISaveOpen(t, opened)
    \/ \E t \in Workers : ISaveDump(t)
    \/ \E r \in Regions : SaveSettings(r)

SpecRegion == InitHub /\ [][NextRegion]_vars

----------------------------------------------------------------------------
(* GET /stats: compute_stats (src/app.py) *)

\* scores = [int(x.get("score", 0)) for x in landings]
Scores(landings) == [i \in 1..Len(landings) |-> landings[i].score]

\* seq[-n:], seq[:n] and reversed(seq)
LastN(seq, n) == SubSeq(seq, Max(1, Len(seq) - n + 1), Len(seq))
FirstN(seq, n) == SubSeq(seq, 1, Min(n, Len(seq)))
ReversedNot(seq) == seq
Reversed(seq) == [i \in 1..Len(seq) |-> seq[Len(seq) + 1 - i]]

\* list(enumerate(scores)): pairs (index from 0, score)
Enumerated(scores) == [i \in 1..Len(scores) |-> <<i - 1, scores[i]>>]

\* key=lambda t: (-t[1], t[0]): a sorts before b
SortKeyAscending(a, b) == a[2] < b[2] \/ (a[2] = b[2] /\ a[1] < b[1])
SortKeyLess(a, b) == (0 - a[2]) < (0 - b[2]) \/ (a[2] = b[2] /\ a[1] < b[1])

\* indexed.sort(key=...): a stable sort, here by insertion from the left
RECURSIVE Inserted(_, _)
Inserted(sorted, x) ==
    IF sorted = <<>> THEN <<x>>
    ELSE IF SortKeyLess(x, Head(sorted)) THEN <<x>> \o sorted
    ELSE <<Head(sorted)>> \o Inserted(Tail(sorted), x)
RECURSIVE SortedByKey(_)
SortedByKey(pairs) ==
    IF pairs = <<>> THEN <<>>
    ELSE Inserted(SortedByKey(SubSeq(pairs, 1, Len(pairs) - 1)), pairs[Len(pairs)])

RECURSIVE MaxOf(_)
MaxOf(scores) == IF Len(scores) = 1 THEN scores[1] ELSE Max(Head(scores), MaxOf(Tail(scores)))

RecentN == 10
TopN == 5

\* compute_stats(landings): count, best, recent and top, with the local
\* `indexed[:5]` the top scores are taken from (average, a rounded float, is
\* left out)
compute_stats(landings) ==
    LET scores == Scores(landings)
        indexed == FirstN(SortedByKey(Enumerated(scores)), TopN) IN
    [count |-> Len(scores),
     best |-> IF scores = <<>> THEN 0 ELSE MaxOf(scores),
     recent |-> Reversed(LastN(scores, RecentN)),
     top |-> [i \in 1..Len(indexed) |-> indexed[i][2]],
     indexed |-> indexed]

\* the scores found in the log: three values among the first TopN landings,
\* two after them
StatsScores(n) == IF n < TopN THEN {3, 5, 9} ELSE {5, 9}

\* one more landing is in the log when the next /stats request reads it
StatsAppend(score) ==
    /\ Len(statsLog) < MaxStatsLen
    /\ score \in StatsScores(Len(statsLog))
    /\ statsLog' = Append(statsLog, VoteRecord(score, Len(statsLog) + 1))
    /\ statsRet' = NoStats
    /\ UNCHANGED <<storeVars, httpVars, hubLock, rpc, rreq, posts>>

\* GET /stats: jsonify(compute_stats(landings))
StatsGet ==
    /\ statsRet' = compute_stats(statsLog)
    /\ UNCHANGED <<storeVars, httpVars, statsLog, hubLock, rpc, rreq, posts>>

NextStats ==
    \/ \E score \in {3, 5, 9} : StatsAppend(score)
    \/ StatsGet

SpecStats == InitHub /\ [][NextStats]_vars

----------------------------------------------------------------------------
(* POST /reset and SSEHub.broadcast with its lock (src/app.py) *)

\* reset(): "No-op for Option B", store.reset() is not called
ResetCallsStoreYes == TRUE
ResetCallsStore == FALSE

\* broadcast(): the `with self.lock:` block ends before the loop over the snapshot
PutsUnderLock == FALSE
PutsOutsideLock == TRUE

\* the body of the response: {"ok": True}
OkBody == [ok |-> TRUE]

\* a POST /reset request arrives at thread t
ResetReceive(t) ==
    /\ rpc[t] = "idle"
    /\ posts < MaxPosts
    /\ posts' = posts + 1
    /\ rpc' = [rpc EXCEPT ![t] = "r_lock"]
    /\ rreq' = [rreq EXCEPT ![t] = NoBroadcast]
    /\ fs' = IF ResetCallsStore THEN [fs EXCEPT ![TargetPath] = Full(EmptyLog)] ELSE fs
    /\ UNCHANGED <<lock, up, spc, sop, sarg, sdata, spre, lastRet, diskOK,
                   okAppends, resets, edits, crashes, ops, badStart>>
    /\ UNCHANGED <<httpVars, statsLog, statsRet, hubLock>>

\* hub.broadcast(hello): `with self.lock:` waits until the lock is free
ResetLock(t) ==
    /\ rpc[t] = "r_lock"
    /\ hubLock = NoThread
    /\ hubLock' = t
    /\ rpc' = [rpc EXCEPT ![t] = "r_snap"]
    /\ UNCHANGED <<storeVars, httpVars, statsLog, statsRet, rreq, posts>>

\* clients_snapshot = list(self.clients), and the lock is released
ResetSnapshot(t) ==
    /\ rpc[t] = "r_snap"
    /\ rreq' = [rreq EXCEPT ![t] = [targets |-> clients, todo |-> clients, served |-> <<>>]]
    /\ hubLock' = IF PutsOutsideLock THEN NoThread ELSE hubLock
    /\ rpc' = [rpc EXCEPT ![t] = "r_put"]
    /\ UNCHANGED <<storeVars, httpVars, statsLog, statsRet, posts>>

\* for q in clients_snapshot: q.put_nowait(payload)
ResetPut(t) ==
    /\ rpc[t] = "r_put"
    /\ rreq[t].todo # <<>>
    /\ LET c == Head(rreq[t].todo) IN
        /\ ~PutBlocks(queues[c])
        /\ queues' = IF conn[c] # "closed" /\ QueueAccepts(queues[c])
                     THEN [queues EXCEPT ![c] = Enqueued(@, Hello)]
                     ELSE queues
        /\ rreq' = [rreq EXCEPT ![t].todo = Tail(@), ![t].served = Append(@, c)]
    /\ UNCHANGED <<storeVars, clients, conn, sent, hubRet, voteVars, audioVars,
                   statsLog, statsRet, hubLock, rpc, posts>>

\* return jsonify({"ok": True})
ResetRespond(t) ==
    /\ rpc[t] = "r_put"
    /\ rreq[t].todo = <<>>
    /\ lastResp' = [NoResp EXCEPT !.status = 200, !.body = OkBody, !.http = TRUE]
    /\ hubLock' = IF hubLock = t THEN NoThread ELSE hubLock
    /\ rpc' = [rpc EXCEPT ![t] = "idle"]
    /\ UNCHANGED <<storeVars, hubVars, audioVars, vpc, vreq, vhist, votes, envVars,
                   statsLog, statsRet, rreq, posts>>

\* the thread is inside no handler
ThreadIdle(t) == rpc[t] = "idle" /\ vpc[t] = "idle" /\ spc[t] = "idle" /\ apc[t] = "idle"

\* POST /reset: request threads handling resets while two /stream connections
\* come and go, and one caller of store.append puts a record into the log.
NextReset ==
    \/ \E t \in Workers : ThreadIdle(t) /\ ResetReceive(t)
    \/ \E t \in Workers : ResetLock(t)
    \/ \E t \in Workers : ResetSnapshot(t)
    \/ \E t \in Workers : ResetPut(t)
    \/ \E t \in Workers : ResetRespond(t)
    \/ \E s \in AppendScores : ThreadIdle("w1") /\ StoreCall("w1", "append", s)
    \/ StoreAppend("w1")
    \/ WOpen("w1")
    \/ WSync("w1")
    \/ WRename("w1")
    \/ WReturn("w1")
    \/ \E c \in Conns : hubLock = NoThread /\ StreamRegister(c)
    \/ \E c \in Conns : StreamHello(c)
    \/ \E c \in Conns : StreamDeliver(c)
    \/ \E c \in Conns : hubLock = NoThread /\ StreamClose(c)

SpecReset == InitHub /\ [][NextReset]_vars

\* thread t is free to take one more request
Accepts(t) == ThreadIdle(t) /\ ops + votes + posts < MaxRequests

\* The server of src/app.py with its two locks: request threads handling
\* POST /reset and GET /vote, callers of store.append and store.get_landings,
\* and the overlay's /stream connection registering and unregistering under
\* the hub's lock.
NextApp ==
    \/ \E t \in Workers : Accepts(t) /\ ResetReceive(t)
    \/ \E t \in Workers : ResetLock(t)
    \/ \E t \in Workers : ResetSnapshot(t)
    \/ \E t \in Workers : ResetPut(t)
    \/ \E t \in Workers : ResetRespond(t)
    \/ \E t \in Workers, s \in HubScores :
           \E q \in get_random_quote(Clamp(s)) : Accepts(t) /\ VoteReceive(t, s, TRUE, q)
    \/ \E t \in Workers : VoteAudio(t, CatalogEngine, CatalogEngine, "Error", "Error")
    \/ \E t \in Workers : hubLock = NoThread /\ VoteBroadcast(t)
    \/ \E t \in Workers : BroadcastPut(t)
    \/ \E t \in Workers : VoteRespond(t)
    \/ \E t \in Workers, s \in HubScores : Accepts(t) /\ StoreCall(t, "append", s)
    \/ \E t \in Workers : Accepts(t) /\ StoreCall(t, "get_landings", 0)
    \/ \E t \in Workers : StoreAppend(t)
    \/ \E t \in Workers : StoreGetLandings(t)
    \/ \E t \in Workers : WOpen(t)
    \/ \E t \in Workers : WSync(t)
    \/ \E t \in Workers : WRename(t)
    \/ \E t \in Workers : WReturn(t)
    \/ \E c \in Overlays : hubLock = NoThread /\ StreamRegister(c)
    \/ \E c \in Overlays : StreamHello(c)
    \/ \E c \in Overlays : hubLock = NoThread /\ StreamClose(c)

SpecApp == InitHub /\ [][NextApp]_vars

----------------------------------------------------------------------------
(* Properties of the vote pipeline *)

Stages == <<"RECEIVED", "CLAMPED", "QUOTE_SELECTED", "AUDIO_RESOLVED", "BROADCAST", "RESPONDED">>
StagesWithPersisted ==
    <<"RECEIVED", "CLAMPED", "QUOTE_SELECTED", "AUDIO_RESOLVED", "PERSISTED", "BROADCAST", "RESPONDED">>

\* the vote events among what a connection was sent or has waiting
VoteEvents(c) == SelectSeq(sent[c] \o queues[c], LAMBDA e : e.type = "vote")

\* thread t has put its event on every queue of its snapshot that it has got
\* to, as far as the queue's connection is still open
Published(t) ==
    \A i \in 1..(Len(vreq[t].targets) - Len(vreq[t].todo)) :
        conn[vreq[t].targets[i]] # "closed" =>
            InSeq(vreq[t].payload, VoteEvents(vreq[t].targets[i]))

ExpectedScore(s) == IF s < 1 THEN 1 ELSE IF s > 10 THEN 10 ELSE s

\* the event e is the event of a vote for the score c
EventOfScore(e, c) ==
    /\ e.type = "vote"
    /\ e.score = c
    /\ e.level = level_for_score(c)
    /\ e.quote \in get_random_quote(c)

\* C4: for every integer s, vote(s) clamps first, and the quote, the tier and
\* the event are those of a vote for max(1, min(10, s)): a score below 1 gives
\* what vote(1) gives, a score above 10 what vote(10) gives.
C4_Clamped ==
    /\ \A t \in Workers : vpc[t] # "idle" =>
        /\ vreq[t].clamped = ExpectedScore(vreq[t].raw)
        /\ vreq[t].clamped \in 1..10
        /\ vreq[t].quote \in get_random_quote(ExpectedScore(vreq[t].raw))
        /\ SubSeq(vhist[t], 1, 3) = SubSeq(Stages, 1, 3)
        /\ vpc[t] = "put" => EventOfScore(vreq[t].payload, ExpectedScore(vreq[t].raw))
    /\ lastResp.status = 200 =>
        /\ EventOfScore(lastResp.body, ExpectedScore(lastResp.raw))
        /\ SubSeq(lastResp.hist, 1, 4) = SubSeq(Stages, 1, 4)

C4_Witness ==
    /\ lastResp.status = 200
    /\ lastResp.raw = -5
    /\ lastResp.body.score = 1
    /\ lastResp.body.level = "bad"
    /\ \E t \in Workers : vpc[t] = "put" /\ vreq[t].raw = 99 /\ vreq[t].payload.score = 10

\* C5: every GET /vote/{score} with an integer score is answered 200 with the
\* composed event.
C5_AlwaysOk ==
    (lastResp.http /\ lastResp.status # 0) =>
        /\ lastResp.status = 200
        /\ EventOfScore(lastResp.body, ExpectedScore(lastResp.raw))

----------------------------------------------------------------------------
(* Properties of the hub and the /stream connections (checked under SpecHub) *)

\* a connection whose queue takes events: registered and not closed
Open(c) == conn[c] \in {"registered", "streaming"}

\* C13: a subscriber gets the events in the order they were put on its queue:
\* the events sent or waiting only grow at the end (every publish puts behind
\* all that was put before it), what is sent only grows at the end, and a
\* delivery sends the head of the queue.
C13_PublishOrder ==
    [][\A c \in Conns :
         conn'[c] # "closed" =>
            /\ IsPrefix(VoteEvents(c), SelectSeq(sent'[c] \o queues'[c], LAMBDA e : e.type = "vote"))
            /\ IsPrefix(sent[c], sent'[c])
            /\ (sent'[c] # sent[c] /\ conn[c] = "streaming") =>
                    (sent'[c] = Append(sent[c], Head(queues[c])) /\ queues'[c] = Tail(queues[c]))]_vars

C13_Witness ==
    \E c \in Conns :
        /\ conn[c] = "streaming"
        /\ Len(sent[c]) = 3
        /\ sent[c][2].type = "vote" /\ sent[c][3].type = "vote"
        /\ sent[c][2].ts > sent[c][3].ts

\* the events that two sequences have in common come in the same order in both
SameRelativeOrder(s1, s2) ==
    \A i, j \in 1..Len(s1) : \A k, l \in 1..Len(s2) :
        (i < j /\ s1[i] # s1[j] /\ s1[i] = s2[l] /\ s1[j] = s2[k]) => l < k

\* C14: two subscribers that are both registered get the events they both get
\* in the same relative order, also with concurrent publishers.
C14_SameOrder ==
    \A c1, c2 \in Conns :
        (Open(c1) /\ Open(c2)) => SameRelativeOrder(VoteEvents(c1), VoteEvents(c2))

\* C15: a publish never waits for a consumer and loses no subscriber: while a
\* thread is in hub.broadcast its next put can be taken at once, whatever the
\* queues hold and whether or not their consumers read; once all puts are done
\* the handler can return; and the event is on the queue of every subscriber of
\* the snapshot whose turn has come.
C15_PublishNeverWaits ==
    \A t \in Workers :
        vpc[t] = "put" =>
            /\ vreq[t].todo # <<>> => ENABLED BroadcastPut(t)
            /\ vreq[t].todo = <<>> => ENABLED VoteRespond(t)
            /\ Published(t)

C15_Witness ==
    /\ conn["c1"] = "streaming" /\ conn["c2"] = "streaming"
    /\ Len(queues["c1"]) = 2
    /\ queues["c2"] = <<>>
    /\ Len(sent["c2"]) = 3
    /\ \A t \in Workers : vpc[t] = "idle"
    /\ lastResp.status = 200

\* C16: the queue of a closed connection is not in the hub's registry.
C16_NoDanglingQueue ==
    \A c \in Conns : conn[c] = "closed" => ~InSeq(c, clients)

\* C17: unregistering a queue that is not registered raises nothing and
\* changes neither the registry nor any queue; unregistering a registered
\* queue takes that queue out and leaves the others in their order.
C17_UnregisterIdempotent ==
    /\ [](hubRet.outcome \in {"none", "ok"})
    /\ [][(hubRet' # hubRet /\ hubRet'.op = "unregister") =>
            /\ hubRet'.outcome = "ok"
            /\ queues' = queues
            /\ ~InSeq(hubRet'.arg, clients')
            /\ clients' = SelectSeq(clients, LAMBDA x : x # hubRet'.arg)
            /\ ~InSeq(hubRet'.arg, clients) => clients' = clients]_vars

C17_Witness ==
    /\ hubRet = [op |-> "unregister", arg |-> "c1", outcome |-> "ok"]
    /\ conn["c1"] = "closed"
    /\ conn["c2"] = "streaming"
    /\ clients = <<"c2">>
    /\ queues["c2"] # <<>>

\* C18: nothing is written to a connection before the hello, the first message
\* written is the hello, and the events put on the queue between the
\* registration and the hello stay on the queue, to be sent after it.
C18_HelloFirst ==
    /\ [](\A c \in Conns :
            /\ conn[c] \in {"new", "registered"} => sent[c] = <<>>
            /\ conn[c] = "streaming" => (sent[c] # <<>> /\ sent[c][1].type = "hello"))
    /\ [][\A c \in Conns :
            (conn[c] = "registered" /\ conn'[c] = "streaming") =>
                (queues'[c] = queues[c] /\ sent'[c] = <<[type |-> "hello"]>>)]_vars

C18_Witness ==
    /\ conn["c1"] = "streaming"
    /\ Len(sent["c1"]) = 2
    /\ sent["c1"][1].type = "hello"
    /\ sent["c1"][2].type = "vote"
    /\ conn["c2"] = "registered"
    /\ queues["c2"] = <<sent["c1"][2]>>
    /\ sent["c2"] = <<>>

----------------------------------------------------------------------------
(* Properties of the audio cache (checked under SpecAudio) *)

\* an artifact file for the text exists: an earlier resolve of the text, with
\* the same voice, engine, format and region, returned a locator
Resolved(text) == \E e \in Engines : AudioFilename(e, text) \in audioFiles

\* C19: a resolve of a text that was resolved before to a locator, with the
\* same parameters, makes no synthesis call and returns a locator.
C19_SecondResolveHits ==
    [][\A t \in Workers :
         (vpc[t] = "quote" /\ vpc'[t] = "audio" /\ ttsEnabled /\ Resolved(vreq[t].quote)) =>
            /\ vreq'[t].calls = <<>>
            /\ vreq'[t].audio_url # EmptyLocator]_vars

----------------------------------------------------------------------------
(* Properties of the audio index (checked under SpecIndex) *)

AudioIdle == \A t \in Workers : apc[t] = "idle"

\* C22: whatever the interleaving of generate_audio_url and
\* _increment_audio_play calls, once they have all returned the index holds
\* every entry a call saved, with at least the plays the calls wrote (no
\* artifact file having been deleted).
C22_NoLostUpdate ==
    (AudioIdle /\ ~indexTorn /\ deletions = 0) =>
        /\ \A k \in savedKeys : k \in DOMAIN audioIndex
        /\ \A k \in DOMAIN audioIndex : audioIndex[k].play_count >= plays[k]

\* C23: with calls made one after the other, the play_count of every entry of
\* the index is the highest value it ever had: it never decreases, also when
\* the entry is written again after its artifact file was deleted.
C23_PlayCountMonotone ==
    (~overlap /\ ~indexTorn) =>
        \A k \in DOMAIN audioIndex : audioIndex[k].play_count >= peak[k]

\* C24: _increment_audio_play never raises; called with no other call in
\* progress, it writes back the index it read with play_count one higher on
\* the entry under the key of (text, catalog engine) and every other entry and
\* field as it was; with no such entry it changes neither the index nor the
\* artifact files.
C24_IncrementFrame ==
    /\ [](/\ aret.op = "increment" => aret.outcome = "returned"
          /\ \A t \in Workers : (~overlap /\ apc[t] = "i_open") => aloc[t].pre = audioIndex)
    /\ [][\A t \in Workers :
            /\ (apc[t] = "i_dump" /\ apc'[t] = "idle" /\ ~overlap) =>
                  LET pre == aloc[t].pre
                      key == AudioKey(aloc[t].text, CatalogEngine) IN
                  /\ key \in DOMAIN pre
                  /\ DOMAIN audioIndex' = DOMAIN pre
                  /\ \A k \in DOMAIN pre :
                        audioIndex'[k] = IF k = key
                                         THEN [pre[k] EXCEPT !.play_count = pre[k].play_count + 1]
                                         ELSE pre[k]
                  /\ audioFiles' = audioFiles
            /\ (apc[t] = "i_load" /\ apc'[t] = "idle") =>
                  /\ UNCHANGED <<audioIndex, audioFiles, indexTorn>>
                  /\ aret'.outcome = "returned"]_vars

C24_Witness ==
    /\ ~overlap
    /\ AudioIdle
    /\ aret.op = "increment"
    /\ aret.outcome = "returned"
    /\ \E k \in DOMAIN audioIndex :
          /\ k = AudioKey(aret.text, CatalogEngine)
          /\ plays[k] = 1
          /\ audioIndex[k].play_count = 1
          /\ \E k2 \in DOMAIN audioIndex \ {k} : audioIndex[k2].play_count = 0

----------------------------------------------------------------------------
(* Properties of compute_stats (checked under SpecStats) *)

\* C25: top is the scores of the first 5 landings in the order of score
\* descending, earlier position first among equal scores: it has min(n, 5)
\* elements, each the score at its own position of the log, ordered by
\* (-score, position), and every landing left out sorts after the last one
\* taken; for [5,9,9,3,9] it is [9,9,9,5,3], the 9s from positions 1, 2, 4.
C25_TopStable ==
    statsRet # NoStats =>
        LET scores == Scores(statsLog)
            top == statsRet.top
            ix == statsRet.indexed
            taken == {ix[i][1] : i \in 1..Len(ix)} IN
        /\ Len(top) = Min(5, Len(scores))
        /\ Len(ix) = Len(top)
        /\ Cardinality(taken) = Len(ix)
        /\ \A i \in 1..Len(ix) :
              /\ ix[i][1] \in 0..(Len(scores) - 1)
              /\ scores[ix[i][1] + 1] = ix[i][2]
              /\ top[i] = ix[i][2]
        /\ \A i \in 1..Len(ix), j \in 1..Len(ix) :
              i < j => \/ ix[i][2] > ix[j][2]
                       \/ (ix[i][2] = ix[j][2] /\ ix[i][1] < ix[j][1])
        /\ \A p \in 0..(Len(scores) - 1) :
              p \notin taken =>
                  \/ scores[p + 1] < ix[Len(ix)][2]
                  \/ (scores[p + 1] = ix[Len(ix)][2] /\ p > ix[Len(ix)][1])
        /\ scores = <<5, 9, 9, 3, 9>> =>
              /\ top = <<9, 9, 9, 5, 3>>
              /\ ix = <<<<1, 9>>, <<2, 9>>, <<4, 9>>, <<0, 5>>, <<3, 3>>>>

C25_Witness ==
    /\ Scores(statsLog) = <<5, 9, 9, 3, 9>>
    /\ statsRet.top = <<9, 9, 9, 5, 3>>

\* C26: recent has min(n, 10) elements and is the last min(n, 10) scores of
\* the log, newest first; with 12 landings it is the last 10.
C26_RecentNewestFirst ==
    statsRet # NoStats =>
        LET scores == Scores(statsLog)
            n == Len(scores)
            recent == statsRet.recent IN
        /\ Len(recent) = Min(n, 10)
        /\ \A i \in 1..Len(recent) : recent[i] = scores[n + 1 - i]

C26_Witness ==
    /\ Len(statsLog) = 12
    /\ statsRet # NoStats
    /\ Len(statsRet.recent) = 10
    /\ statsRet.recent[1] = statsLog[12].score
    /\ statsRet.recent[10] = statsLog[3].score
    /\ statsLog[3].score # statsLog[2].score
    /\ statsLog[12].score # statsLog[11].score
    /\ statsLog[12].score # statsLog[1].score

----------------------------------------------------------------------------
(* Properties of POST /reset (checked under SpecReset) *)

\* C27: no step of the /reset handler changes the log file, the store's
\* history or the registry; the handler takes the registered queues as they
\* are when it holds the hub's lock, and puts one hello event on each of
\* them, once, in registration order, changing nothing else.
C27_ResetOnlyPublishes ==
    /\ [](\A t \in Workers :
            /\ rreq[t].served \o rreq[t].todo = rreq[t].targets
            /\ (rpc[t] = "idle" /\ rreq[t] # NoBroadcast) => rreq[t].served = rreq[t].targets)
    /\ [][\A t \in Workers :
            (rpc[t] # rpc'[t] \/ rreq[t] # rreq'[t]) =>
                /\ UNCHANGED <<fs, lock, lastRet, okAppends, resets, clients, conn, sent,
                               audioIndex, audioFiles>>
                /\ rpc[t] = "r_snap" => rreq'[t].targets = clients
                /\ IF rpc[t] = "r_put" /\ rreq[t].todo # <<>>
                   THEN LET c == Head(rreq[t].todo) IN
                        queues' = [queues EXCEPT ![c] =
                                     IF conn[c] # "closed" THEN Append(@, [type |-> "hello"]) ELSE @]
                   ELSE queues' = queues]_vars

C27_Witness ==
    \E t \in Workers :
        /\ rpc[t] = "idle"
        /\ Len(rreq[t].served) = 2
        /\ lastResp.body = OkBody
        /\ TargetLog # <<>>
        /\ \A c \in Conns : Len(queues[c]) + Len(sent[c]) >= 1

----------------------------------------------------------------------------
(* Properties of the locks (checked under SpecApp) *)

\* C28: the thread holding the store's lock is inside no handler's hub, audio
\* or vote code; the thread holding the hub's lock is taking the snapshot and
\* is inside no store call and makes no put; a thread holding either lock
\* waits for neither; the vote handler holds no lock while it resolves audio
\* or publishes.
C28_NoLockHeldAcross ==
    \A t \in Workers :
        /\ lock = t => (rpc[t] = "idle" /\ vpc[t] = "idle" /\ apc[t] = "idle")
        /\ hubLock = t => (rpc[t] = "r_snap" /\ spc[t] = "idle" /\ vpc[t] = "idle")
        /\ (lock = t \/ hubLock = t) => (rpc[t] # "r_lock" /\ spc[t] # "wait")
        /\ vpc[t] # "idle" => (lock # t /\ hubLock # t)

C28_Witness ==
    /\ lock = "w1"
    /\ hubLock = "w2"
    /\ clients # <<>>

----------------------------------------------------------------------------
(* Properties of the event (C29 under SpecLevel, C30 under SpecHub) *)

\* the tier the specification gives the clamped score c
TierOf(c) ==
    IF c \in {1, 2, 3} THEN "bad"
    ELSE IF c \in {4, 5, 6} THEN "ok"
    ELSE IF c \in {7, 8} THEN "good"
    ELSE IF c \in {9, 10} THEN "great"
    ELSE "none"

\* C29: the level of every vote event, broadcast or returned, is "bad" for a
\* clamped score of 1..3, "ok" for 4..6, "good" for 7..8 and "great" for 9..10.
C29_Level ==
    /\ \A t \in Workers : vpc[t] = "put" =>
          /\ vreq[t].payload.score \in 1..10
          /\ vreq[t].payload.level = TierOf(vreq[t].payload.score)
    /\ lastResp.status = 200 =>
          /\ lastResp.body.score \in 1..10
          /\ lastResp.body.level = TierOf(lastResp.body.score)

C29_Witness ==
    /\ lastResp.status = 200
    /\ lastResp.body.score = 3
    /\ lastResp.body.level = "bad"
    /\ \E t \in Workers :
          vpc[t] = "put" /\ vreq[t].payload.score = 9 /\ vreq[t].payload.level = "great"

----------------------------------------------------------------------------
(* Properties of the quote (checked under SpecQuote) *)

\* the lines configured for the score c: the user's list when quotes.json is
\* an object whose "quotes" object has a list for c, the bundled list otherwise
ConfiguredLines(file, c) ==
    IF file.shape = "object" /\ file.entries[c].given /\ file.entries[c].list
    THEN file.entries[c].lines
    ELSE DefaultQuotes(c)
\* the quotes can be loaded: no "quotes" that is not an object
QuotesLoadable(file) == file.shape # "quoteslist"

\* C31: the quote a vote picks is one of the lines configured for the clamped
\* score when there are any, and the generic line "Well, that happened." when
\* there are none or the quotes cannot be loaded; the event carries that quote.
C31_QuoteConfigured ==
    [][\A t \in Workers :
         /\ (vpc[t] = "idle" /\ vpc'[t] = "quote") =>
              LET lines == ConfiguredLines(quotesFile, vreq'[t].clamped) IN
              IF QuotesLoadable(quotesFile) /\ lines # <<>>
              THEN \E i \in 1..Len(lines) : vreq'[t].quote = lines[i]
              ELSE vreq'[t].quote = "Well, that happened."
         /\ (vpc[t] = "put" /\ vpc'[t] = "idle") =>
              /\ lastResp'.body.quote = vreq[t].quote
              /\ vreq[t].payload.quote = vreq[t].quote]_vars

\* a vote for 7 drew the user's line, and a vote for 10 was answered with the
\* generic line because the quotes could not be loaded
C31_Witness ==
    /\ \E t \in Workers : vpc[t] = "quote" /\ vreq[t].clamped = 7 /\ vreq[t].quote = "Custom line."
    /\ lastResp.status = 200
    /\ lastResp.body.score = 10
    /\ lastResp.body.quote = "Well, that happened."

----------------------------------------------------------------------------
(* Properties of one publish (checked under SpecHub) *)

NoDuplicates(s) == \A i, j \in 1..Len(s) : s[i] = s[j] => i = j
IsSuffix(a, b) == Len(a) <= Len(b) /\ SubSeq(b, Len(b) - Len(a) + 1, Len(b)) = a

\* what a connection was sent or has waiting
Received(c) == sent[c] \o queues[c]

\* C32: a publish puts its event exactly once on every queue of the snapshot
\* it took of the registry, and on no other queue.  The snapshot is the
\* registry as it was when the publish began and holds every queue once; the
\* publish goes through it from the front, each step putting one copy of the
\* event behind what the queue at the head of the rest holds (unless that
\* queue's connection is gone) and touching no other queue; it ends when the
\* rest is empty; and no step that is not a put adds an event to a queue.
C32_ExactlyOnce ==
    /\ [](\A t \in Workers : vpc[t] = "put" =>
            /\ NoDuplicates(vreq[t].targets)
            /\ IsSuffix(vreq[t].todo, vreq[t].targets))
    /\ [][/\ \A t \in Workers :
               /\ (vpc[t] = "audio" /\ vpc'[t] = "put") =>
                     (vreq'[t].targets = clients /\ vreq'[t].todo = clients)
               /\ (vpc[t] = "put" /\ vreq'[t].todo # vreq[t].todo) =>
                     /\ vreq'[t].todo = Tail(vreq[t].todo)
                     /\ vreq'[t].targets = vreq[t].targets
                     /\ \A c \in Conns :
                          Received(c)' =
                             IF c = Head(vreq[t].todo) /\ conn[c] # "closed"
                             THEN Append(Received(c), vreq[t].payload)
                             ELSE Received(c)
               /\ (vpc[t] = "put" /\ vpc'[t] = "idle") => vreq[t].todo = <<>>
          /\ (\A t \in Workers : vpc[t] = "put" => vreq'[t].todo = vreq[t].todo) =>
                \A c \in Conns : conn'[c] # "closed" => VoteEvents(c)' = VoteEvents(c)]_vars

\* a publish has done all its puts: the subscriber of its snapshot has the
\* event once, and the subscriber that registered after the snapshot, and is
\* in the registry now, has none
C32_Witness ==
    \E t \in Workers :
        /\ vpc[t] = "put"
        /\ vreq[t].targets = <<"c1">>
        /\ vreq[t].todo = <<>>
        /\ clients = <<"c1", "c2">>
        /\ conn["c1"] = "streaming" /\ conn["c2"] = "streaming"
        /\ VoteEvents("c1") = <<vreq[t].payload>>
        /\ VoteEvents("c2") = <<>>

----------------------------------------------------------------------------
(* Properties of the stream loop (checked under SpecKeep) *)

Last(s) == s[Len(s)]

\* C33: a keep-alive is sent only when the queue holds no event; it is one
\* comment, it leaves the queue, the registry and the connection as they were
\* (the subscriber stays registered and the loop goes on), and what was sent
\* before stays in its order.  An event that is on the queue after a
\* keep-alive is sent next, for as long as the connection lasts.
C33_KeepAlive ==
    /\ [][\A c \in Overlays :
            (KeepAlives(c)' # KeepAlives(c) /\ conn'[c] # "closed") =>
                /\ queues[c] = <<>>
                /\ sent'[c] = Append(sent[c], KeepAlive)
                /\ queues' = queues
                /\ clients' = clients /\ InSeq(c, clients)
                /\ conn[c] = "streaming" /\ conn'[c] = "streaming"]_vars
    /\ \A c \in Overlays : \A n \in 1..(1 + MaxVotes + MaxKeepAlives) :
          (/\ conn[c] = "streaming"
           /\ Len(sent[c]) = n
           /\ Last(sent[c]) = KeepAlive
           /\ queues[c] # <<>>)
          ~> (\/ conn[c] = "closed"
              \/ Len(sent[c]) > n /\ sent[c][n + 1].type = "vote")

\* after the hello and two keep-alives an event has been delivered, and
\* another one is waiting
C33_Witness ==
    \E c \in Overlays :
        /\ conn[c] = "streaming"
        /\ Len(sent[c]) = 4
        /\ sent[c][2] = KeepAlive /\ sent[c][3] = KeepAlive
        /\ sent[c][4].type = "vote"
        /\ Len(queues[c]) = 1

----------------------------------------------------------------------------
(* Properties of the artifacts and their index entries (checked under      *)
(* SpecIndex)                                                              *)

\* thread t's generate_audio_url call returns a locator after a synthesis
ResolveSynthesized(t) ==
    /\ aloc[t].op = "resolve"
    /\ apc[t] \in {"g_open", "g_dump"}
    /\ apc'[t] = "idle"
    /\ aret'.outcome = "returned" /\ aret'.value # EmptyLocator

\* the request's key: the key of the voice's engine in the catalog
RequestKey(text) == AudioKey(text, CatalogEngine)

\* the index file has an entry under key whose file exists
EntryWithFile(index, torn, files, key) ==
    /\ ~torn
    /\ key \in DOMAIN index
    /\ index[key].filename \in files

\* C34: a resolve that found its key in the index and the entry's file gone,
\* and returns a locator (no other call running meanwhile, the file it wrote
\* still there), leaves the index entry of that key pointing to a file that
\* exists.
C34_SelfHeal ==
    [][\A t \in Workers :
         (/\ ResolveSynthesized(t)
          /\ RequestKey(aloc[t].text) \in DOMAIN aloc[t].pre
          /\ ~overlap'
          /\ aloc[t].filename \in audioFiles') =>
            EntryWithFile(audioIndex', indexTorn', audioFiles', RequestKey(aloc[t].text))]_vars

\* the same, for a synthesis the voice's own engine answered
C34_SelfHealPrimary ==
    [][\A t \in Workers :
         (/\ ResolveSynthesized(t)
          /\ RequestKey(aloc[t].text) \in DOMAIN aloc[t].pre
          /\ ~overlap'
          /\ aloc[t].engine = CatalogEngine
          /\ aloc[t].filename \in audioFiles') =>
            EntryWithFile(audioIndex', indexTorn', audioFiles', RequestKey(aloc[t].text))]_vars

\* thread t's generate_audio_url call returns the empty locator
ResolveEmpty(t) ==
    /\ aloc[t].op = "resolve"
    /\ apc[t] # "idle" /\ apc'[t] = "idle"
    /\ aret'.value = EmptyLocator

\* the index file has under key the entry of a fresh artifact named filename
FreshEntry(index, torn, key, filename) ==
    /\ ~torn
    /\ key \in DOMAIN index
    /\ index[key].filename = filename
    /\ index[key].play_count = 0

C36_WrittenOnce ==
    [][\A t \in Workers :
         (aloc[t].op = "resolve" /\ apc[t] = "g_write" /\ apc'[t] = "g_open") =>
            aloc[t].filename \notin audioFiles]_vars

----------------------------------------------------------------------------
(* Properties of the TTS switch (checked under SpecTts) *)

\* the play_count under key k, 0 when the index has no such entry
PlayCount(index, k) == IF k \in DOMAIN index THEN index[k].play_count ELSE 0

\* thread t's vote goes through its audio step
AudioStep(t) == vpc[t] \in {"tts_on", "tts_off"} /\ vpc'[t] = "audio"

\* C37: a vote that finds TTS disabled makes no lookup and no provider call,
\* leaves the audio index and the artifact files as they were and carries the
\* empty audio_url in its event; and a play_count goes up only in the audio
\* step of a vote whose resolve returned a locator.
C37_TtsDisabled ==
    /\ [][/\ \A t \in Workers :
               (AudioStep(t) /\ (vpc[t] = "tts_off" \/ ~ttsEnabled)) =>
                    /\ vreq'[t].audio = "disabled"
                    /\ vreq'[t].audio_url = EmptyLocator
                    /\ vreq'[t].calls = <<>>
                    /\ audioIndex' = audioIndex
                    /\ audioFiles' = audioFiles
          /\ \A k \in IndexKeys :
               PlayCount(audioIndex', k) > PlayCount(audioIndex, k) =>
                    \E t \in Workers :
                        /\ AudioStep(t)
                        /\ vreq'[t].audio_url # EmptyLocator
                        /\ k = AudioKey(vreq[t].quote, CatalogEngine)
                        /\ PlayCount(audioIndex', k) = PlayCount(audioIndex, k) + 1]_vars
    /\ [](\A t \in Workers :
            (vpc[t] \in {"audio", "put"} /\ vreq[t].audio = "disabled") =>
                /\ vreq[t].audio_url = EmptyLocator
                /\ vpc[t] = "put" => vreq[t].payload.audio_url = EmptyLocator)

\* a vote that found TTS disabled is about to publish its event without audio,
\* although the line's artifact is cached and has been played once
C37_Witness ==
    \E t \in Workers :
        /\ vpc[t] = "put"
        /\ vreq[t].audio = "disabled"
        /\ vreq[t].payload.audio_url = EmptyLocator
        /\ AudioKey(vreq[t].quote, CatalogEngine) \in DOMAIN audioIndex
        /\ audioIndex[AudioKey(vreq[t].quote, CatalogEngine)].play_count = 1
        /\ votes = 2

----------------------------------------------------------------------------
(* The keys of the index (checked under SpecRegion) *)

\* every entry of index is stored under the key of its own text, engine and
\* region
KeysMatch(index) ==
    \A k \in DOMAIN index : k = KeyOf(index[k].text, index[k].engine, index[k].region)

\* C38: every entry of the index file is stored under the hash of the entry's
\* own fields (the text, the engine and the region; the voice is read once per
\* call, the format is read like the region), also an entry made after the
\* fallback to the alternate engine.
C38_KeysMatch == KeysMatch(audioIndex)

====
